---- MODULE Spec2Model ----
(***************************************************************************)
(* Trial lifecycle core of asutoosh/add_or_remove_users: the signed record *)
(* store (storage.py), the invite issuance and reservation handlers        *)
(* (bot.py, slim_bot.py, api.py) and the trial lifecycle (join, leave,     *)
(* expiry job, reminders, hourly sweep, restart restoration).              *)
(*                                                                         *)
(* Conventions                                                             *)
(*  - A JSON collection (used_trials.json, active_trials.json, ...) is a   *)
(*    function whose DOMAIN is the set of keys present, a stored record is *)
(*    a function whose DOMAIN is the set of fields present.                *)
(*  - Time is counted in hours.  An ISO-8601 string written by            *)
(*    datetime.isoformat() and read back by _parse_iso_to_utc is the hour  *)
(*    it denotes (the round trip is exact for aware UTC datetimes); a      *)
(*    string on which datetime.fromisoformat raises is a negative value.   *)
(*  - Every function of storage.py runs under storage._lock, so each is    *)
(*    one operator applied within one step.  A handler is cut into steps   *)
(*    at the awaits (bot.py, slim_bot.py) or between any two storage calls *)
(*    (api.py, whose requests run on threads).                             *)
(***************************************************************************)
EXTENDS Integers, FiniteSets, Sequences, TLC

VARIABLES
    impl,        \* which bot process is deployed: "bot" (bot.py) or "slim" (slim_bot.py)
    weekday0,    \* weekday (0 = Monday) of hour 0 of the run
    env,         \* the environment a process was started with, and how far its
                 \* startup got
    limits,      \* the in-memory rate-limit tables of api.py and web_app.py, with
                 \* ghost fields: the calls that were allowed and the last call
    now,         \* wall clock, hours
    used,        \* used_trials.json
    active,      \* active_trials.json
    invites,     \* invites.json
    pending,     \* pending_verifications.json
    jobs,        \* the in-memory job queue: one-shot jobs not yet run
    procs,       \* in-flight request handlers (start_trial_callback, contact_handler, api_trial_invite)
    joining,     \* join handlers suspended at the await of the welcome message
    sweep,       \* the hourly sweep, suspended at an await or idle
    lock,        \* storage._lock: the handler inside a `with _lock:` block, or none
    extInvites,  \* number of external create-invite calls that succeeded, per identity
    orig,        \* ghost: every ActiveTrial / InviteRecord as it was last signed by the store
    last         \* ghost: what the last step decided and which external effects it issued

vars == <<impl, weekday0, env, limits, now, used, active, invites, pending, jobs, procs,
          joining, sweep, lock, extInvites, orig, last>>

----------------------------------------------------------------------------
(* Bounds of the model                                                     *)

NumProcs == 2        \* concurrently handled requests
MaxDay == 5          \* day ticks (the cooldown jump comes on top)
MaxTrials == 1       \* trials started in one run
MaxEdits == 1        \* out-of-band edits of the store in one run

Users == {1}
Procs == 1..NumProcs

----------------------------------------------------------------------------
(* Program constants                                                       *)

TRIAL_HOURS_3_DAY == 72
TRIAL_HOURS_5_DAY == 120
REMINDER_1_MINUTES == 1440
REMINDER_2_MINUTES == 2880
TRIAL_END_3DAY_MINUTES == 4320
REMINDER_3_MINUTES == 4320
REMINDER_4_MINUTES == 5760
TRIAL_END_5DAY_MINUTES == 7200
TRIAL_COOLDOWN_DAYS == 30
INVITE_LINK_EXPIRY_HOURS == 5
PENDING_VERIFICATION_EXPIRY_HOURS == 24

DayHours == 24
CooldownHours == TRIAL_COOLDOWN_DAYS * DayHours

----------------------------------------------------------------------------
(* Python dictionaries                                                     *)

EmptyDict == << >>

Has(d, k) == k \in DOMAIN d

Put(d, k, v) == [x \in (DOMAIN d) \cup {k} |-> IF x = k THEN v ELSE d[x]]

Del(d, k) == [x \in (DOMAIN d) \ {k} |-> d[x]]

\* dict.get(k, default)
Get(d, k, default) == IF k \in DOMAIN d THEN d[k] ELSE default

----------------------------------------------------------------------------
(* Timestamps                                                              *)

\* a stored string that datetime.fromisoformat rejects (ValueError)
UNPARSEABLE == -1
\* the empty string, the default of data.get(field, "") in the signing code
EMPTY_STR == -2

\* _parse_iso_to_utc succeeds
Parses(v) == v >= 0

\* _is_weekend with TIMEZONE_OFFSET_HOURS = 0: Saturday (5) or Sunday (6)
_is_weekend(t) == ((weekday0 + (t \div DayHours)) % 7) >= 5

----------------------------------------------------------------------------
(* Signatures (storage.py).  HMAC-SHA256 under the server's key is an      *)
(* injective function of the message: the signature is the message tagged  *)
(* with the key.                                                           *)

\* the environment of a deployment that is configured as documented
GoodEnv ==
    [process |-> "bot.py", BOT_TOKEN |-> "BOT_TOKEN", TRIAL_CHANNEL_ID |-> "-1001",
     API_SECRET |-> "secret_of_32_chars", state |-> "serving"]

FALLBACK_KEY == "insecure_fallback_key"

_get_signing_key == IF env.BOT_TOKEN = "" THEN FALLBACK_KEY ELSE env.BOT_TOKEN

Hmac(key, message) == <<key, message>>

\* a signature that leaves trial_end_at out of the signed message
_sign_trial_data_without_end(data, user_id) ==
    Hmac(_get_signing_key,
         <<user_id,
           Get(data, "join_time", EMPTY_STR),
           Get(data, "total_hours", EMPTY_STR)>>)

_sign_trial_data(data, user_id) ==
    Hmac(_get_signing_key,
         <<user_id,
           Get(data, "join_time", EMPTY_STR),
           Get(data, "total_hours", EMPTY_STR),
           Get(data, "trial_end_at", EMPTY_STR)>>)

_verify_trial_signature(data, user_id) ==
    IF ~Has(data, "signature") THEN FALSE
    ELSE data["signature"] = _sign_trial_data(data, user_id)

_sign_invite_data(data, user_id) ==
    Hmac(_get_signing_key,
         <<user_id,
           Get(data, "invite_link", EMPTY_STR),
           Get(data, "invite_created_at", EMPTY_STR),
           Get(data, "invite_expires_at", EMPTY_STR)>>)

_verify_invite_signature(data, user_id) ==
    IF ~Has(data, "signature") THEN FALSE
    ELSE data["signature"] = _sign_invite_data(data, user_id)

----------------------------------------------------------------------------
(* Storage operations (storage.py), each under storage._lock.  An operator *)
(* takes the collection(s) it loads and returns the collection it saves    *)
(* and/or its return value.                                                *)

has_used_trial(usedD, tg_id) == Has(usedD, tg_id)

mark_trial_used(usedD, tg_id, info) == Put(usedD, tg_id, info)

\* a reservation that looks at active_trials.json only
reserve_ignoring_used(usedD, activeD, tg_id, t) ==
    IF Has(activeD, tg_id) THEN [ok |-> FALSE, used |-> usedD]
    ELSE [ok |-> TRUE,
          used |-> Put(usedD, tg_id, [reserved_at |-> t, status |-> "reserved"])]

\* returns [ok |-> the return value, used |-> used_trials.json afterwards]
atomic_check_and_reserve_trial(usedD, activeD, tg_id, t) ==
    IF Has(usedD, tg_id) THEN [ok |-> FALSE, used |-> usedD]
    ELSE IF Has(activeD, tg_id) THEN [ok |-> FALSE, used |-> usedD]
    ELSE [ok |-> TRUE,
          used |-> Put(usedD, tg_id, [reserved_at |-> t, status |-> "reserved"])]

set_active_trial(activeD, tg_id, info) ==
    Put(activeD, tg_id, Put(info, "signature", _sign_trial_data(info, tg_id)))

clear_active_trial(activeD, tg_id) == Del(activeD, tg_id)

set_invite_info(invD, tg_id, info) ==
    Put(invD, tg_id, Put(info, "signature", _sign_invite_data(info, tg_id)))

\* the link, or 0 for None (links are numbered from 1)
get_valid_invite_link(invD, tg_id, t) ==
    IF ~Has(invD, tg_id) THEN 0
    ELSE LET invite_info == invD[tg_id] IN
         IF ~Has(invite_info, "invite_expires_at") THEN 0
         ELSE IF ~_verify_invite_signature(invite_info, tg_id) THEN 0
         ELSE IF ~Parses(invite_info["invite_expires_at"]) THEN 0
         ELSE IF t < invite_info["invite_expires_at"]
                 /\ Get(invite_info, "invite_link", 0) # 0
              THEN invite_info["invite_link"]
              ELSE 0

\* an invite creation that never looks for an existing invite
create_invite_without_lookup(invD, tg_id, link_data, t) ==
    [action |-> "created", link |-> 0,
     invites |-> Put(invD, tg_id,
                     Put(Put(link_data, "creating", TRUE), "created_at", t))]

\* returns [action, link, invites |-> invites.json afterwards]
atomic_create_or_get_invite(invD, tg_id, link_data, t) ==
    LET invite_info == Get(invD, tg_id, EmptyDict)
        found == /\ Has(invD, tg_id)
                 /\ Has(invite_info, "invite_expires_at")
                 /\ Parses(invite_info["invite_expires_at"])
                 /\ t < invite_info["invite_expires_at"]
                 /\ Get(invite_info, "invite_link", 0) # 0
    IN IF found
       THEN [action |-> "existing", link |-> invite_info["invite_link"], invites |-> invD]
       ELSE [action |-> "created", link |-> 0,
             invites |-> Put(invD, tg_id,
                             Put(Put(link_data, "creating", TRUE), "created_at", t))]

finalize_invite_creation(invD, tg_id, invite_link) ==
    IF Has(invD, tg_id)
    THEN LET d1 == Del(Put(invD[tg_id], "invite_link", invite_link), "creating")
         IN Put(invD, tg_id, Put(d1, "signature", _sign_invite_data(d1, tg_id)))
    ELSE invD

cleanup_failed_invite_creation(invD, tg_id) ==
    IF Has(invD, tg_id) /\ Get(invD[tg_id], "creating", FALSE)
    THEN Del(invD, tg_id)
    ELSE invD

set_pending_verification(pendD, tg_id, info) == Put(pendD, tg_id, info)

clear_pending_verification(pendD, tg_id) == Del(pendD, tg_id)

----------------------------------------------------------------------------
(* Records and ghost values shared by the handlers                         *)

\* the local variables of an in-flight request handler
\* the rate-limit tables at process start (defaultdict(list): api.py 75-76,
\* web_app.py 48) and no call made yet
NoLimits ==
    [api_ip |-> EmptyDict, api_tg |-> EmptyDict, web_ip |-> EmptyDict,
     allowed |-> [api_ip |-> EmptyDict, api_tg |-> EmptyDict,
                 web_ip |-> EmptyDict, store |-> EmptyDict],
     call |-> [fn |-> "none", ip |-> "", tg |-> 0, max |-> 0, window |-> 0, at |-> 0,
               ok |-> FALSE]]

\* threading.Lock() (storage.py 132) when no handler holds it
NoHolder == 0

IdleProc == [op |-> "idle", pc |-> "idle", u |-> 0, res |-> "none", link |-> 0, t |-> 0]

NoEffect == [op |-> "none", user |-> 0, res |-> "none", msgs |-> {}, ban |-> FALSE,
             sched |-> 0, sigok |-> TRUE]

IdleSweep == [pc |-> "idle", queue |-> << >>, t |-> 0, cur |-> 0]

\* `now < join_time + total_hours` as computed by /start, start_trial_callback,
\* contact_handler (bot.py) and /api/user/status, /api/trial/info (api.py)
StillRunningByJoin(rec, t) ==
    /\ rec # EmptyDict
    /\ Has(rec, "join_time") /\ Has(rec, "total_hours")
    /\ Parses(rec["join_time"])
    /\ t < rec["join_time"] + rec["total_hours"]

Finish(p, result, lnk) ==
    [procs EXCEPT ![p] = [@ EXCEPT !.pc = "done", !.res = result, !.link = lnk]]

Begin(p, opname, u) ==
    [IdleProc EXCEPT !.op = opname, !.u = u, !.t = now]

GrantUnchanged == UNCHANGED <<impl, lock, weekday0, env, limits, now, jobs, joining, sweep, last>>

\* ghost: remember the InviteRecord of u as the store signed it in this step
SignedInvite(u) ==
    orig' = [orig EXCEPT !.invite = IF Has(invites', u) THEN Put(@, u, invites'[u]) ELSE @]

----------------------------------------------------------------------------
(* bot.py start_trial_callback                                             *)

start_trial_callback(p, u) ==
    /\ impl = "bot"
    /\ procs[p].pc = "idle"
    /\ LET r == atomic_check_and_reserve_trial(used, active, u, now)
           existing_link == get_valid_invite_link(invites, u, now)
           pending_data == Get(pending, u, EmptyDict)
           result ==
               IF ~r.ok THEN "already_used"
               ELSE IF existing_link # 0 THEN "existing"
               ELSE IF StillRunningByJoin(Get(active, u, EmptyDict), now) THEN "in_trial"
               ELSE IF Get(pending_data, "step1_ok", FALSE)
                       /\ Get(pending_data, "status", "none") # "phone_verified"
                    THEN "continue_verification"
               ELSE "open_page"
       IN /\ used' = r.used
          /\ procs' = [procs EXCEPT ![p] =
                 [Begin(p, "start_trial_callback", u) EXCEPT
                     !.pc = "done", !.res = result,
                     !.link = IF result = "existing" THEN existing_link ELSE 0]]
    /\ UNCHANGED <<active, invites, pending, extInvites, orig>>
    /\ GrantUnchanged

----------------------------------------------------------------------------
(* contact_handler (bot.py, slim_bot.py)                                   *)

\* the part of contact_handler from the phone check to the atomic invite check
ContactVerify(p, u, opname, blocked) ==
    LET data == Get(pending, u, EmptyDict) IN
    IF blocked
    THEN /\ pending' = set_pending_verification(pending, u,
                           Put(data, "status", "blocked_phone_india"))
         /\ procs' = [procs EXCEPT ![p] =
                [Begin(p, opname, u) EXCEPT !.pc = "done", !.res = "blocked_phone"]]
         /\ UNCHANGED invites
    ELSE LET invite_data == [invite_created_at |-> now,
                             invite_expires_at |-> now + INVITE_LINK_EXPIRY_HOURS]
             result == atomic_create_or_get_invite(invites, u, invite_data, now)
         IN /\ pending' = set_pending_verification(pending, u,
                              Put(data, "status", "verified"))
            /\ invites' = result.invites
            /\ procs' = [procs EXCEPT ![p] =
                   IF result.action = "existing"
                   THEN [Begin(p, opname, u) EXCEPT
                            !.pc = "done", !.res = "existing", !.link = result.link]
                   ELSE [Begin(p, opname, u) EXCEPT !.pc = "create", !.res = "created"]]

\* bot.py contact_handler up to the await of create_chat_invite_link
bot_contact_handler(p, u, contact, blocked) ==
    /\ impl = "bot"
    /\ procs[p].pc = "idle"
    /\ IF has_used_trial(used, u)
       THEN /\ procs' = [procs EXCEPT ![p] =
                   [Begin(p, "contact_handler", u) EXCEPT !.pc = "done", !.res = "already_used"]]
            /\ UNCHANGED <<pending, invites>>
       ELSE IF StillRunningByJoin(Get(active, u, EmptyDict), now)
       THEN /\ procs' = [procs EXCEPT ![p] =
                   [Begin(p, "contact_handler", u) EXCEPT !.pc = "done", !.res = "in_trial"]]
            /\ UNCHANGED <<pending, invites>>
       ELSE IF contact # "own"
       THEN /\ procs' = [procs EXCEPT ![p] =
                   [Begin(p, "contact_handler", u) EXCEPT !.pc = "done", !.res = "bad_contact"]]
            /\ UNCHANGED <<pending, invites>>
       ELSE ContactVerify(p, u, "contact_handler", blocked)
    /\ UNCHANGED <<used, active, extInvites, orig>>
    /\ GrantUnchanged

\* slim_bot.py contact_handler up to its first await after the atomic check
slim_contact_handler(p, u, contact, blocked) ==
    /\ impl = "slim"
    /\ procs[p].pc = "idle"
    /\ IF has_used_trial(used, u)
       THEN /\ procs' = [procs EXCEPT ![p] =
                   [Begin(p, "contact_handler", u) EXCEPT !.pc = "done", !.res = "already_used"]]
            /\ UNCHANGED <<pending, invites>>
       ELSE IF contact = "other"
       THEN /\ procs' = [procs EXCEPT ![p] =
                   [Begin(p, "contact_handler", u) EXCEPT !.pc = "done", !.res = "bad_contact"]]
            /\ UNCHANGED <<pending, invites>>
       ELSE ContactVerify(p, u, "contact_handler", blocked)
    /\ UNCHANGED <<used, active, extInvites, orig>>
    /\ GrantUnchanged

\* the external create_chat_invite_link call returns a new link: the links of
\* an identity are numbered in the order of their creation
NewLink(u) == extInvites[u] + 1

\* contact_handler resumes after the external call: finalize on success,
\* clean the placeholder up on failure.  In slim_bot.py the reply sent before
\* the external call is not guarded: when it raises the handler ends there.
contact_create(p, outcome) ==
    /\ procs[p].op = "contact_handler"
    /\ procs[p].pc = "create"
    /\ outcome = "reply_failed" => impl = "slim"
    /\ LET u == procs[p].u IN
       CASE outcome = "ok" ->
              /\ extInvites' = [extInvites EXCEPT ![u] = NewLink(u)]
              /\ invites' = finalize_invite_creation(invites, u, NewLink(u))
              /\ procs' = [procs EXCEPT ![p] =
                     [@ EXCEPT !.pc = "sent", !.res = "link_sent", !.link = NewLink(u)]]
              /\ SignedInvite(u)
         [] outcome = "failed" ->
              /\ invites' = cleanup_failed_invite_creation(invites, u)
              /\ procs' = Finish(p, "create_failed", 0)
              /\ UNCHANGED <<extInvites, orig>>
         [] outcome = "reply_failed" ->
              /\ procs' = Finish(p, "reply_failed", 0)
              /\ UNCHANGED <<invites, extInvites, orig>>
    /\ UNCHANGED <<used, active, pending>>
    /\ GrantUnchanged

\* after the link was sent: append_trial_log, clear_pending_verification
contact_finish(p) ==
    /\ procs[p].op = "contact_handler"
    /\ procs[p].pc = "sent"
    /\ pending' = clear_pending_verification(pending, procs[p].u)
    /\ procs' = [procs EXCEPT ![p] = [@ EXCEPT !.pc = "done"]]
    /\ UNCHANGED <<used, active, invites, extInvites, orig>>
    /\ GrantUnchanged

----------------------------------------------------------------------------
(* api.py POST /api/trial/invite.  Flask serves requests on threads: every *)
(* storage call is a step of its own.                                      *)

api_trial_invite(p, u, validated_via_init_data) ==
    /\ procs[p].pc = "idle"
    /\ procs' = [procs EXCEPT ![p] =
           IF ~validated_via_init_data
           THEN [Begin(p, "api_trial_invite", u) EXCEPT !.pc = "done", !.res = "forbidden"]
           ELSE IF has_used_trial(used, u)
           THEN [Begin(p, "api_trial_invite", u) EXCEPT !.pc = "done", !.res = "already_used"]
           ELSE [Begin(p, "api_trial_invite", u) EXCEPT !.pc = "get_active_trial"]]
    /\ UNCHANGED <<used, active, invites, pending, extInvites, orig>>
    /\ GrantUnchanged

api_invite_get_active(p) ==
    /\ procs[p].op = "api_trial_invite"
    /\ procs[p].pc = "get_active_trial"
    /\ procs' = IF Has(active, procs[p].u)
                THEN Finish(p, "in_trial", 0)
                ELSE [procs EXCEPT ![p] = [@ EXCEPT !.pc = "get_valid_invite_link"]]
    /\ UNCHANGED <<used, active, invites, pending, extInvites, orig>>
    /\ GrantUnchanged

api_invite_get_link(p) ==
    /\ procs[p].op = "api_trial_invite"
    /\ procs[p].pc = "get_valid_invite_link"
    /\ LET existing_link == get_valid_invite_link(invites, procs[p].u, procs[p].t) IN
       procs' = IF existing_link # 0
                THEN Finish(p, "existing", existing_link)
                ELSE [procs EXCEPT ![p] = [@ EXCEPT !.pc = "get_pending_verification"]]
    /\ UNCHANGED <<used, active, invites, pending, extInvites, orig>>
    /\ GrantUnchanged

api_invite_get_pending(p) ==
    /\ procs[p].op = "api_trial_invite"
    /\ procs[p].pc = "get_pending_verification"
    /\ LET verification == Get(pending, procs[p].u, EmptyDict) IN
       procs' = IF Get(verification, "status", "none") # "phone_verified"
                THEN Finish(p, "not_verified", 0)
                ELSE [procs EXCEPT ![p] = [@ EXCEPT !.pc = "createChatInviteLink"]]
    /\ UNCHANGED <<used, active, invites, pending, extInvites, orig>>
    /\ GrantUnchanged

\* the HTTP call to the Bot API: a new link, or an error answer
api_invite_create(p, ok) ==
    /\ procs[p].op = "api_trial_invite"
    /\ procs[p].pc = "createChatInviteLink"
    /\ LET u == procs[p].u IN
       IF ok
       THEN /\ extInvites' = [extInvites EXCEPT ![u] = NewLink(u)]
            /\ procs' = [procs EXCEPT ![p] =
                   [@ EXCEPT !.pc = "set_invite_info", !.link = NewLink(u)]]
       ELSE /\ procs' = Finish(p, "create_failed", 0)
            /\ UNCHANGED extInvites
    /\ UNCHANGED <<used, active, invites, pending, orig>>
    /\ GrantUnchanged

api_invite_set(p) ==
    /\ procs[p].op = "api_trial_invite"
    /\ procs[p].pc = "set_invite_info"
    /\ LET u == procs[p].u IN
       /\ invites' = set_invite_info(invites, u,
                        [invite_link |-> procs[p].link,
                         invite_created_at |-> procs[p].t,
                         invite_expires_at |-> procs[p].t + INVITE_LINK_EXPIRY_HOURS])
       /\ SignedInvite(u)
    /\ procs' = [procs EXCEPT ![p] = [@ EXCEPT !.pc = "clear_pending_verification"]]
    /\ UNCHANGED <<used, active, pending, extInvites>>
    /\ GrantUnchanged

api_invite_clear(p) ==
    /\ procs[p].op = "api_trial_invite"
    /\ procs[p].pc = "clear_pending_verification"
    /\ pending' = clear_pending_verification(pending, procs[p].u)
    /\ procs' = [procs EXCEPT ![p] = [@ EXCEPT !.pc = "done", !.res = "link_sent"]]
    /\ UNCHANGED <<used, active, invites, extInvites, orig>>
    /\ GrantUnchanged

----------------------------------------------------------------------------
(* Time                                                                    *)

MaxInviteTicks == 1

\* the clock advances by the lifetime of an invitation
TickInvite ==
    /\ now + INVITE_LINK_EXPIRY_HOURS <= MaxInviteTicks * INVITE_LINK_EXPIRY_HOURS
    /\ now' = now + INVITE_LINK_EXPIRY_HOURS
    /\ UNCHANGED <<impl, lock, weekday0, env, limits, used, active, invites, pending, jobs, procs,
                   joining, sweep, extInvites, orig, last>>

----------------------------------------------------------------------------
(* Specification of the grant path: reservation and invite issuance by     *)
(* concurrently handled requests of one identity.  The identity starts in  *)
(* one of the states the funnel and the lifecycle leave it in at rest.     *)

Monday == 0
Saturday == 5

\* a trial as the join handler stores it when it starts at hour t
NewTrial(t) ==
    LET total_hours == IF _is_weekend(t) THEN TRIAL_HOURS_5_DAY ELSE TRIAL_HOURS_3_DAY
    IN [join_time |-> t, total_hours |-> total_hours, trial_end_at |-> t + total_hours]

Step1Passed == [status |-> "step1_passed", step1_ok |-> TRUE]
PhoneVerified == [status |-> "phone_verified", step1_ok |-> TRUE]

InitGrant ==
    /\ impl \in {"bot", "slim"}
    /\ lock = NoHolder
    /\ weekday0 = Monday
    /\ env = GoodEnv
    /\ limits = NoLimits
    /\ now = 0
    /\ \E u \in Users :
         /\ \/ used = EmptyDict /\ active = EmptyDict
            \/ /\ used = mark_trial_used(EmptyDict, u,
                             [trial_ended_at |-> 0, ended_by |-> "scheduled_job"])
               /\ active = EmptyDict
            \/ used = EmptyDict /\ active = set_active_trial(EmptyDict, u, NewTrial(0))
         /\ pending \in {EmptyDict,
                         set_pending_verification(EmptyDict, u, Step1Passed),
                         set_pending_verification(EmptyDict, u, PhoneVerified)}
    /\ invites = EmptyDict
    /\ jobs = {}
    /\ procs = [p \in Procs |-> IdleProc]
    /\ joining = EmptyDict
    /\ sweep = IdleSweep
    /\ extInvites = [u \in Users |-> 0]
    /\ orig = [trial |-> active, invite |-> EmptyDict, trials |-> 0, edits |-> 0]
    /\ last = NoEffect

NextGrant ==
    \/ \E p \in Procs, u \in Users : start_trial_callback(p, u)
    \/ \E p \in Procs, u \in Users, contact \in {"own", "other", "none"}, blocked \in BOOLEAN :
          bot_contact_handler(p, u, contact, blocked)
    \/ \E p \in Procs, u \in Users, contact \in {"own", "other", "none"}, blocked \in BOOLEAN :
          slim_contact_handler(p, u, contact, blocked)
    \/ \E p \in Procs, outcome \in {"ok", "failed", "reply_failed"} : contact_create(p, outcome)
    \/ \E p \in Procs : contact_finish(p)
    \/ \E p \in Procs, u \in Users, v \in BOOLEAN : api_trial_invite(p, u, v)
    \/ \E p \in Procs : api_invite_get_active(p)
    \/ \E p \in Procs : api_invite_get_link(p)
    \/ \E p \in Procs : api_invite_get_pending(p)
    \/ \E p \in Procs, ok \in BOOLEAN : api_invite_create(p, ok)
    \/ \E p \in Procs : api_invite_set(p)
    \/ \E p \in Procs : api_invite_clear(p)
    \/ TickInvite

SpecGrant == InitGrant /\ [][NextGrant]_vars

----------------------------------------------------------------------------
(* Claims about the grant path (SpecGrant)                                 *)

ReservedMarker(t) == [reserved_at |-> t, status |-> "reserved"]

\* the start_trial_callback runs for u whose atomic_check_and_reserve_trial returned True
Reservers(u) ==
    {p \in Procs : /\ procs[p].op = "start_trial_callback"
                   /\ procs[p].u = u
                   /\ procs[p].res # "already_used"}

\* p runs atomic_check_and_reserve_trial (within start_trial_callback) in this step
ReserveStep(p) == procs[p].pc = "idle" /\ procs'[p].op = "start_trial_callback"

\* C1: among the interleaved calls of atomic_check_and_reserve_trial for one
\* identity at most one returns True; a call for an identity with neither a
\* UsedTrial nor an ActiveTrial returns True and writes the 'reserved' marker
\* into used_trials, every other call returns False and writes nothing.
C1_ExactlyOneReservation ==
    /\ [](\A u \in Users : Cardinality(Reservers(u)) <= 1)
    /\ [][\A p \in Procs : ReserveStep(p) =>
            LET u == procs'[p].u IN
            IF ~Has(used, u) /\ ~Has(active, u)
            THEN /\ procs'[p].res # "already_used"
                 /\ used' = Put(used, u, ReservedMarker(now))
            ELSE /\ procs'[p].res = "already_used"
                 /\ used' = used]_vars

\* two calls for a fresh identity have returned: one True, one False
C1_Witness ==
    \E u \in Users, p, q \in Procs :
        /\ p \in Reservers(u)
        /\ procs[q].op = "start_trial_callback" /\ procs[q].u = u
        /\ procs[q].res = "already_used"
        /\ Has(used, u) /\ Get(used[u], "status", "none") = "reserved"

\* the contact_handler runs for u that hold a `creating` placeholder: their
\* atomic_create_or_get_invite returned 'created' and neither finalize nor
\* cleanup has run
Creators(u) ==
    {p \in Procs : /\ procs[p].op = "contact_handler"
                   /\ procs[p].u = u
                   /\ procs[p].pc = "create"}

\* C2: while one contact_handler run holds a `creating` placeholder for an
\* identity, no concurrent atomic_create_or_get_invite call for the same
\* identity returns 'created' as well.
C2_PlaceholderBlocksCreators == \A u \in Users : Cardinality(Creators(u)) <= 1

\* the api_trial_invite requests for u that passed all eligibility reads and
\* have not yet recorded their invite with set_invite_info
ApiInviteWindow(u) ==
    {p \in Procs : /\ procs[p].op = "api_trial_invite"
                   /\ procs[p].u = u
                   /\ procs[p].pc \in {"createChatInviteLink", "set_invite_info"}}

\* C3: between the eligibility reads of a POST /api/trial/invite request and
\* its set_invite_info no second request for the same identity passes the
\* same reads, so only one of them creates an external invitation.
C3_ApiInviteAtomic == \A u \in Users : Cardinality(ApiInviteWindow(u)) <= 1

\* a finalized, signed, unexpired InviteRecord of u
ValidInvite(u, t) ==
    /\ Has(invites, u)
    /\ ~Has(invites[u], "creating")
    /\ Get(invites[u], "invite_link", 0) # 0
    /\ _verify_invite_signature(invites[u], u)
    /\ Has(invites[u], "invite_expires_at")
    /\ t < invites[u]["invite_expires_at"]

\* p runs contact_handler up to its first await in this step
ContactStep(p) == procs[p].pc = "idle" /\ procs'[p].op = "contact_handler"

\* C9: when a finalized, signed, unexpired InviteRecord exists for the
\* identity, contact_handler changes nothing in invites, makes no external
\* create-invite call, and its atomic_create_or_get_invite answers 'existing'
\* with the stored link.
C9_InviteIdempotent ==
    [][\A p \in Procs : (ContactStep(p) /\ ValidInvite(procs'[p].u, now)) =>
          /\ invites' = invites
          /\ extInvites' = extInvites
          /\ procs'[p].pc = "done"
          /\ procs'[p].res # "created"
          /\ procs'[p].res = "existing" => procs'[p].link = invites[procs'[p].u]["invite_link"]
          /\ procs'[p].res \in {"existing", "already_used", "in_trial", "bad_contact", "blocked_phone"}]_vars

\* a contact_handler run was answered with the stored link
C9_Witness ==
    \E p \in Procs :
        /\ procs[p].op = "contact_handler"
        /\ procs[p].res = "existing"
        /\ ValidInvite(procs[p].u, now)
        /\ procs[p].link = invites[procs[p].u]["invite_link"]

----------------------------------------------------------------------------
(* Trial lifecycle (bot.py, slim_bot.py): join and leave events, the       *)
(* one-shot jobs, the hourly sweep and the restoration at process start.   *)
(* Handlers interleave at their awaits (the scheduling model of the        *)
(* design: every event and job runs concurrently with the others).  A      *)
(* direct message to a user can fail (the user blocked the bot): where the *)
(* code does not guard the send, the handler ends at the raise.            *)

Eff(op, u, res, msgs, ban, sched, sigok) ==
    [op |-> op, user |-> u, res |-> res, msgs |-> msgs, ban |-> ban,
     sched |-> sched, sigok |-> sigok]

Hours(minutes) == minutes \div 60

\* validate_trial_data (bot.py 264-309, slim_bot.py 146-178) at time t
validate_trial_data(trial_data, user_id, t) ==
    IF ~Has(trial_data, "join_time") \/ ~Has(trial_data, "total_hours") THEN FALSE
    ELSE IF ~_verify_trial_signature(trial_data, user_id) THEN FALSE
    ELSE IF trial_data["total_hours"] \notin {TRIAL_HOURS_3_DAY, TRIAL_HOURS_5_DAY} THEN FALSE
    ELSE IF ~Parses(trial_data["join_time"]) THEN FALSE
    ELSE IF trial_data["join_time"] > t THEN FALSE
    ELSE IF t - trial_data["join_time"] > 30 * DayHours THEN FALSE
    ELSE TRUE

\* the jobs run_once registers for a trial of trial_days days at time t
TrialJobs(u, trial_days, t) ==
    IF trial_days = 3
    THEN {[fn |-> "trial_reminder_3day_1", user |-> u, at |-> t + Hours(REMINDER_1_MINUTES)],
          [fn |-> "trial_reminder_3day_2", user |-> u, at |-> t + Hours(REMINDER_2_MINUTES)],
          [fn |-> "trial_end", user |-> u, at |-> t + Hours(TRIAL_END_3DAY_MINUTES)]}
    ELSE {[fn |-> "trial_reminder_5day_1", user |-> u, at |-> t + Hours(REMINDER_1_MINUTES)],
          [fn |-> "trial_reminder_5day_3", user |-> u, at |-> t + Hours(REMINDER_3_MINUTES)],
          [fn |-> "trial_reminder_5day_4", user |-> u, at |-> t + Hours(REMINDER_4_MINUTES)],
          [fn |-> "trial_end", user |-> u, at |-> t + Hours(TRIAL_END_5DAY_MINUTES)]}

TrialUnchanged == UNCHANGED <<impl, lock, weekday0, env, limits, invites, pending, procs, extInvites>>

\* ghost: orig.trial follows the ActiveTrial store (only an out-of-band edit
\* makes the two differ); started counts the trials this step started
TrackOrig(started) ==
    orig' = [orig EXCEPT
               !.trial = [u \in DOMAIN active' |->
                            IF Has(active, u) /\ Has(@, u) /\ active'[u] = active[u]
                            THEN @[u] ELSE active'[u]],
               !.trials = @ + started]

\* the end timestamp the join handler of bot.py reads from a UsedTrial record:
\* info.get("trial_ended_at") or info.get("left_early_at"); EMPTY_STR for None
BotUsedEnd(info) ==
    IF Get(info, "trial_ended_at", EMPTY_STR) # EMPTY_STR
    THEN info["trial_ended_at"]
    ELSE Get(info, "left_early_at", EMPTY_STR)

\* bot.py: the join is rejected because of the identity's UsedTrial record
BotJoinRejected(u, t) ==
    /\ has_used_trial(used, u)
    /\ LET ended == BotUsedEnd(used[u]) IN
       \/ ended = EMPTY_STR
       \/ ~Parses(ended)
       \/ t - ended < TRIAL_COOLDOWN_DAYS * DayHours

\* slim_bot.py: every join of an identity with a UsedTrial record is rejected
SlimJoinRejected(u, t) == has_used_trial(used, u)

\* an existing-trial check with the comparison of the end reversed
BotJoinNoopReversed(u, t) ==
    /\ Has(active, u)
    /\ validate_trial_data(active[u], u, t)
    /\ Has(active[u], "trial_end_at")
    /\ Parses(active[u]["trial_end_at"])
    /\ t >= active[u]["trial_end_at"]

\* bot.py: the existing ActiveTrial is still running, the join is a no-op
BotJoinNoop(u, t) ==
    /\ Has(active, u)
    /\ validate_trial_data(active[u], u, t)
    /\ Has(active[u], "trial_end_at")
    /\ Parses(active[u]["trial_end_at"])
    /\ t < active[u]["trial_end_at"]

SlimJoinNoop(u, t) ==
    /\ Has(active, u)
    /\ Has(active[u], "trial_end_at")
    /\ Parses(active[u]["trial_end_at"])
    /\ t < active[u]["trial_end_at"]

\* trial_chat_member_update, join branch, up to the await of the welcome
\* message (bot.py 1988-2131, slim_bot.py 1239-1326)
join(u, sendOk) ==
    LET rejected == IF impl = "bot" THEN BotJoinRejected(u, now) ELSE SlimJoinRejected(u, now)
        noop == IF impl = "bot" THEN BotJoinNoop(u, now) ELSE SlimJoinNoop(u, now)
        trial_days == IF _is_weekend(now) THEN 5 ELSE 3
    IN
    /\ rejected \/ noop \/ orig.trials < MaxTrials
    /\ IF rejected
       THEN \* the notification is not guarded: when it raises, no ban is issued
            /\ last' = Eff("join", u, "rejected",
                           IF sendOk THEN {"already_used"} ELSE {}, sendOk, 0, TRUE)
            /\ UNCHANGED <<active, joining, orig>>
       ELSE IF noop
       THEN /\ last' = Eff("join", u, "already_running", {}, FALSE, 0,
                           _verify_trial_signature(active[u], u))
            /\ UNCHANGED <<active, joining, orig>>
       ELSE /\ active' = set_active_trial(active, u, NewTrial(now))
            /\ TrackOrig(1)
            /\ joining' = Put(joining, u, trial_days)
            /\ last' = Eff("join", u, "activated", {}, FALSE, 0, TRUE)
    /\ UNCHANGED <<now, used, jobs, sweep>>
    /\ TrialUnchanged

\* the join handler resumes after the welcome message and registers the jobs;
\* when the send raised, the handler ended without registering any
join_welcome(u, sendOk) ==
    /\ Has(joining, u)
    /\ joining' = Del(joining, u)
    /\ IF sendOk
       THEN /\ jobs' = jobs \cup TrialJobs(u, joining[u], now)
            /\ last' = Eff("join_welcome", u, "scheduled", {"welcome"}, FALSE,
                           Cardinality(TrialJobs(u, joining[u], now)), TRUE)
       ELSE /\ last' = Eff("join_welcome", u, "send_failed", {}, FALSE, 0, TRUE)
            /\ UNCHANGED jobs
    /\ UNCHANGED <<now, used, active, sweep, orig>>
    /\ TrialUnchanged

\* trial_chat_member_update, leave branch (bot.py 2186-2290, slim_bot.py
\* 1351-1393).  actor is who caused the leave; getMeOk is whether get_me
\* answered (when it raises, the actor cannot be compared)
leave(u, actor, getMeOk) ==
    /\ IF getMeOk /\ actor = "bot"
       THEN /\ last' = Eff("leave", u, "by_bot", {}, FALSE, 0, TRUE)
            /\ UNCHANGED <<used, active>>
       ELSE /\ used' = mark_trial_used(used, u,
                          IF Has(active, u)
                          THEN [left_early_at |-> now, reason |-> "user_left_channel",
                                join_time |-> Get(active[u], "join_time", EMPTY_STR),
                                total_hours |-> Get(active[u], "total_hours", EMPTY_STR)]
                          ELSE [left_early_at |-> now, reason |-> "user_left_channel"])
            /\ active' = clear_active_trial(active, u)
            /\ last' = Eff("leave", u, "marked_used", {"left"}, FALSE, 0, TRUE)
    /\ UNCHANGED <<now, jobs, joining, sweep>>
    /\ TrackOrig(0)
    /\ TrialUnchanged

\* the freshness check of _send_trial_reminder (bot.py 2293-2329) and
\* _send_reminder (slim_bot.py 1400-1423): TRUE when the reminder is sent
ReminderFresh(rec, t) ==
    ~ ( /\ Get(rec, "trial_end_at", EMPTY_STR) # EMPTY_STR
        /\ Parses(rec["trial_end_at"])
        /\ t >= rec["trial_end_at"] )

\* trial_end (bot.py 2409-2475, slim_bot.py 1488-1536)
trial_end(u) ==
    IF ~Has(active, u)
    THEN /\ last' = Eff("trial_end", u, "no_active", {}, FALSE, 0, TRUE)
         /\ UNCHANGED <<used, active>>
    ELSE IF has_used_trial(used, u)
    THEN /\ active' = clear_active_trial(active, u)
         /\ last' = Eff("trial_end", u, "cleared_only", {}, FALSE, 0,
                        _verify_trial_signature(active[u], u))
         /\ UNCHANGED used
    ELSE /\ used' = mark_trial_used(used, u,
                       [trial_ended_at |-> now, ended_by |-> "scheduled_job"])
         /\ active' = clear_active_trial(active, u)
         /\ last' = Eff("trial_end", u, "ended", {"trial_ended"}, TRUE, 0,
                        _verify_trial_signature(active[u], u))

\* trial_reminder_3day_1 .. trial_reminder_5day_4: they differ in the text only
trial_reminder(u) ==
    /\ IF ~Has(active, u)
       THEN last' = Eff("reminder", u, "skipped", {}, FALSE, 0, TRUE)
       ELSE IF ReminderFresh(active[u], now)
       THEN last' = Eff("reminder", u, "sent", {"reminder"}, FALSE, 0,
                        _verify_trial_signature(active[u], u))
       ELSE last' = Eff("reminder", u, "skipped", {}, FALSE, 0, TRUE)
    /\ UNCHANGED <<used, active>>

\* the job queue runs a one-shot job that is due
run_job(j) ==
    /\ j \in jobs
    /\ j.at <= now
    /\ jobs' = jobs \ {j}
    /\ IF j.fn = "trial_end" THEN trial_end(j.user) ELSE trial_reminder(j.user)
    /\ UNCHANGED <<now, joining, sweep>>
    /\ TrackOrig(0)
    /\ TrialUnchanged

\* the entries of a dict in key order, as <<key, value>> pairs
RECURSIVE Items(_)
Items(d) ==
    IF DOMAIN d = {} THEN << >>
    ELSE LET k == CHOOSE x \in DOMAIN d : \A y \in DOMAIN d : x <= y
         IN <<<<k, d[k]>>>> \o Items(Del(d, k))

\* the loop of periodic_trial_cleanup (bot.py 1911-1960) from the head of
\* queue up to its next await: cur is the identity whose ban is awaited, 0
\* when the loop ran to its end.  t0 is the `now` read at the start of the
\* sweep, t the clock when the record is validated.
RECURSIVE BotSweepLoop(_, _, _, _, _)
BotSweepLoop(queue, usedD, activeD, t0, t) ==
    IF queue = << >>
    THEN [used |-> usedD, active |-> activeD, queue |-> << >>, cur |-> 0]
    ELSE LET user_id == queue[1][1]
             info == queue[1][2]
         IN IF ~validate_trial_data(info, user_id, t)
            THEN BotSweepLoop(Tail(queue), usedD, clear_active_trial(activeD, user_id), t0, t)
            ELSE IF Get(info, "trial_end_at", EMPTY_STR) = EMPTY_STR
            THEN BotSweepLoop(Tail(queue), usedD, activeD, t0, t)
            ELSE IF ~Parses(info["trial_end_at"])
            THEN BotSweepLoop(Tail(queue), usedD, activeD, t0, t)
            ELSE IF t0 >= info["trial_end_at"]
            THEN [used |-> mark_trial_used(usedD, user_id,
                              [trial_ended_at |-> t0, ended_by |-> "periodic_cleanup"]),
                  active |-> activeD, queue |-> Tail(queue), cur |-> user_id]
            ELSE BotSweepLoop(Tail(queue), usedD, activeD, t0, t)

\* the loop of periodic_cleanup (slim_bot.py 1548-1573) up to its next await
RECURSIVE SlimSweepLoop(_, _, _, _)
SlimSweepLoop(queue, usedD, activeD, t0) ==
    IF queue = << >>
    THEN [used |-> usedD, active |-> activeD, queue |-> << >>, cur |-> 0]
    ELSE LET user_id == queue[1][1]
             info == queue[1][2]
         IN IF Get(info, "trial_end_at", EMPTY_STR) = EMPTY_STR
            THEN SlimSweepLoop(Tail(queue), usedD, activeD, t0)
            ELSE IF ~Parses(info["trial_end_at"])
            THEN SlimSweepLoop(Tail(queue), usedD, activeD, t0)
            ELSE IF t0 >= info["trial_end_at"]
            THEN [used |-> IF has_used_trial(usedD, user_id) THEN usedD
                           ELSE mark_trial_used(usedD, user_id,
                                   [trial_ended_at |-> t0, ended_by |-> "periodic_cleanup"]),
                  active |-> clear_active_trial(activeD, user_id),
                  queue |-> Tail(queue), cur |-> user_id]
            ELSE SlimSweepLoop(Tail(queue), usedD, activeD, t0)

SweepLoop(queue, t0) ==
    IF impl = "bot" THEN BotSweepLoop(queue, used, active, t0, now)
    ELSE SlimSweepLoop(queue, used, active, t0)

\* cleanup_expired_pending_verifications (storage.py 577-607)
cleanup_expired_pending_verifications(pendD, t) ==
    LET stamp(info) == IF Get(info, "verified_at", EMPTY_STR) # EMPTY_STR
                       THEN info["verified_at"]
                       ELSE Get(info, "ip_check_at", EMPTY_STR)
        expired == {k \in DOMAIN pendD :
                      /\ stamp(pendD[k]) # EMPTY_STR
                      /\ Parses(stamp(pendD[k]))
                      /\ t - stamp(pendD[k]) > PENDING_VERIFICATION_EXPIRY_HOURS}
    IN [k \in DOMAIN pendD \ expired |-> pendD[k]]

SweepResume(r, t0) ==
    /\ used' = r.used
    /\ active' = r.active
    /\ sweep' = IF r.cur = 0 THEN IdleSweep
                ELSE [pc |-> "ban", queue |-> r.queue, t |-> t0, cur |-> r.cur]

\* periodic_trial_cleanup (bot.py 1893-1963) / periodic_cleanup (slim_bot.py
\* 1543-1573) from the start to the first await
sweep_start ==
    /\ sweep.pc = "idle"
    /\ pending' = IF impl = "bot" THEN cleanup_expired_pending_verifications(pending, now)
                  ELSE pending
    /\ LET r == SweepLoop(Items(active), now) IN
         /\ SweepResume(r, now)
         /\ last' = Eff("sweep", r.cur, IF r.cur = 0 THEN "pass" ELSE "expired",
                        {}, FALSE, 0, TRUE)
    /\ UNCHANGED <<impl, lock, weekday0, env, limits, invites, procs, extInvites, now, jobs, joining>>
    /\ TrackOrig(0)

\* the sweep resumes after ban_chat_member / unban_chat_member
sweep_ban ==
    /\ sweep.pc = "ban"
    /\ IF impl = "bot"
       THEN /\ active' = clear_active_trial(active, sweep.cur)
            /\ sweep' = [sweep EXCEPT !.pc = "notify"]
            /\ UNCHANGED used
       ELSE SweepResume(SweepLoop(sweep.queue, sweep.t), sweep.t)
    /\ last' = Eff("sweep_ban", sweep.cur, "removed", {}, TRUE, 0, TRUE)
    /\ UNCHANGED <<now, jobs, joining>>
    /\ TrackOrig(0)
    /\ TrialUnchanged

\* bot.py: the sweep resumes after the (guarded) notification
sweep_notify ==
    /\ sweep.pc = "notify"
    /\ SweepResume(SweepLoop(sweep.queue, sweep.t), sweep.t)
    /\ last' = Eff("sweep_notify", sweep.cur, "notified", {"trial_finished"}, FALSE, 0, TRUE)
    /\ UNCHANGED <<now, jobs, joining>>
    /\ TrackOrig(0)
    /\ TrialUnchanged

\* a restoration that registers every job of the trial again, also those
\* whose time has passed
RestoredJobsUnfiltered(u, rec, end_dt, t) ==
    TrialJobs(u, IF rec["total_hours"] = TRIAL_HOURS_5_DAY THEN 5 ELSE 3,
              rec["join_time"])
    \cup (IF end_dt <= t
          THEN {[fn |-> "trial_end", user |-> u, at |-> t]}
          ELSE {})

\* the jobs main() re-registers for one stored record at process start
\* (bot.py 2517-2583, slim_bot.py 1590-1628); end_dt is the end the code
\* computed for the record
RestoredJobs(u, rec, end_dt, t) ==
    {j \in TrialJobs(u, IF rec["total_hours"] = TRIAL_HOURS_5_DAY THEN 5 ELSE 3,
                     rec["join_time"]) : j.at > t}
    \cup (IF end_dt <= t
          THEN {[fn |-> "trial_end", user |-> u, at |-> t]}
          ELSE {})

\* bot.py: records that fail validate_trial_data are cleared first
BotRestore(u, rec, t) ==
    IF ~validate_trial_data(rec, u, t) THEN {}
    ELSE IF Get(rec, "trial_end_at", EMPTY_STR) = EMPTY_STR
    THEN RestoredJobs(u, rec, rec["join_time"] + rec["total_hours"], t)
    ELSE IF ~Parses(rec["trial_end_at"]) THEN {}
    ELSE RestoredJobs(u, rec, rec["trial_end_at"], t)

\* slim_bot.py: no validation, the end is join_time + total_hours
SlimRestore(u, rec, t) ==
    IF Get(rec, "join_time", EMPTY_STR) = EMPTY_STR \/ ~Has(rec, "total_hours") THEN {}
    ELSE IF ~Parses(rec["join_time"]) THEN {}
    ELSE RestoredJobs(u, rec, rec["join_time"] + rec["total_hours"], t)

\* the process stops and main() runs again: the in-memory job queue and the
\* handlers in flight are gone, the stores stay
restart ==
    /\ active' = IF impl = "bot"
                 THEN [u \in {k \in DOMAIN active : validate_trial_data(active[k], k, now)}
                          |-> active[u]]
                 ELSE active
    /\ jobs' = UNION {IF impl = "bot" THEN BotRestore(u, active[u], now)
                      ELSE SlimRestore(u, active[u], now) : u \in DOMAIN active}
    /\ joining' = EmptyDict
    /\ sweep' = IdleSweep
    /\ last' = Eff("restart", 0, "restored", {}, FALSE, Cardinality(jobs'), TRUE)
    /\ UNCHANGED <<now, used>>
    /\ TrackOrig(0)
    /\ TrialUnchanged

\* /start (bot.py 312-411); it changes no trial or invite record
start(u) ==
    /\ impl = "bot"
    /\ last' = IF has_used_trial(used, u)
               THEN Eff("start", u, "already_used", {"already_used"}, FALSE, 0, TRUE)
               ELSE IF Has(active, u) /\ StillRunningByJoin(active[u], now)
               THEN Eff("start", u, "in_trial", {"in_trial"}, FALSE, 0,
                        _verify_trial_signature(active[u], u))
               ELSE IF get_valid_invite_link(invites, u, now) # 0
               THEN Eff("start", u, "has_link", {"invite"}, FALSE, 0, TRUE)
               ELSE IF Get(Get(pending, u, EmptyDict), "step1_ok", FALSE)
                       /\ Get(Get(pending, u, EmptyDict), "status", "none") # "phone_verified"
               THEN Eff("start", u, "continue_verification", {"continue_verification"},
                        FALSE, 0, TRUE)
               ELSE Eff("start", u, "welcome", {"welcome_start"}, FALSE, 0, TRUE)
    /\ UNCHANGED <<now, used, active, jobs, joining, sweep, orig>>
    /\ TrialUnchanged

\* GET /api/trial/info (api.py 773-814)
api_trial_info(u) ==
    /\ last' = IF ~Has(active, u)
               THEN Eff("api_trial_info", u, "no_active_trial", {}, FALSE, 0, TRUE)
               ELSE IF ~Has(active[u], "join_time") \/ ~Has(active[u], "total_hours")
                       \/ ~Parses(active[u]["join_time"])
               THEN Eff("api_trial_info", u, "error", {}, FALSE, 0, TRUE)
               ELSE IF now >= active[u]["join_time"] + active[u]["total_hours"]
               THEN Eff("api_trial_info", u, "trial_ended", {}, FALSE, 0, TRUE)
               ELSE Eff("api_trial_info", u, "has_active_trial", {}, FALSE, 0,
                        _verify_trial_signature(active[u], u))
    /\ UNCHANGED <<now, used, active, jobs, joining, sweep, orig>>
    /\ TrialUnchanged

\* an out-of-band edit of one field of a stored ActiveTrial (the JSON file
\* is writable by whoever reaches the storage medium); the signature stays
TamperValues(rec, f) ==
    IF f = "total_hours"
    THEN {TRIAL_HOURS_3_DAY, TRIAL_HOURS_5_DAY, 1000} \ {rec[f]}
    ELSE {rec[f] + DayHours, UNPARSEABLE}

Tamper(u, f, v) ==
    /\ Has(active, u)
    /\ Has(orig.trial, u)
    /\ active[u] = orig.trial[u]
    /\ orig.edits < MaxEdits
    /\ v \in TamperValues(active[u], f)
    /\ active' = [active EXCEPT ![u] = Put(@, f, v)]
    /\ last' = Eff("tamper", u, f, {}, FALSE, 0, TRUE)
    /\ UNCHANGED <<now, used, jobs, joining, sweep>>
    /\ orig' = [orig EXCEPT !.edits = @ + 1]
    /\ TrialUnchanged

\* the job queue fires a job at its time: the clock moves on when no job is due
NoJobDue == \A j \in jobs : j.at > now

\* an await returns within seconds: no handler is in flight when a day ends
NoneInFlight == joining = EmptyDict /\ sweep.pc = "idle"

\* one day passes
TickDay ==
    /\ now \div DayHours < MaxDay
    /\ NoJobDue
    /\ NoneInFlight
    /\ now' = now + DayHours
    /\ last' = Eff("tick", 0, "day", {}, FALSE, 0, TRUE)
    /\ UNCHANGED <<used, active, jobs, joining, sweep, orig>>
    /\ TrialUnchanged

\* the cooldown period passes
TickCooldown ==
    /\ now < CooldownHours
    /\ NoJobDue
    /\ NoneInFlight
    /\ now' = now + CooldownHours
    /\ last' = Eff("tick", 0, "cooldown", {}, FALSE, 0, TRUE)
    /\ UNCHANGED <<used, active, jobs, joining, sweep, orig>>
    /\ TrialUnchanged

InitTrial ==
    /\ impl \in {"bot", "slim"}
    /\ lock = NoHolder
    /\ weekday0 = Saturday
    /\ env = GoodEnv
    /\ limits = NoLimits
    /\ now = 0
    /\ \/ used = EmptyDict /\ active = EmptyDict /\ jobs = {}
       \/ \E u \in Users :
            /\ used = mark_trial_used(EmptyDict, u,
                         [trial_ended_at |-> 0, ended_by |-> "scheduled_job"])
            /\ active = EmptyDict /\ jobs = {}
       \/ \E u \in Users :
            /\ impl = "bot"
            /\ used = mark_trial_used(EmptyDict, u, ReservedMarker(0))
            /\ active = EmptyDict /\ jobs = {}
       \/ \E u \in Users :
            /\ used = EmptyDict
            /\ active = set_active_trial(EmptyDict, u, NewTrial(0))
            /\ jobs = TrialJobs(u, IF _is_weekend(0) THEN 5 ELSE 3, 0)
    /\ invites = EmptyDict
    /\ pending = EmptyDict
    /\ procs = [p \in Procs |-> IdleProc]
    /\ joining = EmptyDict
    /\ sweep = IdleSweep
    /\ extInvites = [u \in Users |-> 0]
    /\ orig = [trial |-> active, invite |-> EmptyDict, trials |-> 0, edits |-> 0]
    /\ last = NoEffect

NextTrial ==
    \/ \E u \in Users, sendOk \in BOOLEAN : join(u, sendOk)
    \/ \E u \in Users, sendOk \in BOOLEAN : join_welcome(u, sendOk)
    \/ \E u \in Users, actor \in {"user", "bot"}, getMeOk \in BOOLEAN : leave(u, actor, getMeOk)
    \/ \E j \in jobs : run_job(j)
    \/ sweep_start
    \/ sweep_ban
    \/ sweep_notify
    \/ restart
    \/ \E u \in Users : start(u)
    \/ \E u \in Users : api_trial_info(u)
    \/ \E u \in DOMAIN active, f \in {"join_time", "total_hours", "trial_end_at"} :
          \E v \in TamperValues(active[u], f) : Tamper(u, f, v)
    \/ TickDay
    \/ TickCooldown

SpecTrial == InitTrial /\ [][NextTrial]_vars

----------------------------------------------------------------------------
(* Claims about the trial lifecycle (SpecTrial)                            *)

\* no handler or job is in the middle of its execution
AtRest ==
    /\ joining = EmptyDict
    /\ sweep.pc = "idle"
    /\ \A p \in Procs : procs[p].pc = "idle"

\* C4: at rest, no identity has both a UsedTrial record and an ActiveTrial
\* record, whatever joins (also after the cooldown), leaves, expiry jobs and
\* sweeps came before.
C4_UsedActiveExclusive ==
    AtRest => \A u \in Users : ~(Has(used, u) /\ Has(active, u))

JoinStep(u) == \E sendOk \in BOOLEAN : join(u, sendOk)

\* the end timestamp of a UsedTrial record, EMPTY_STR when it has none
UsedEnd(info) ==
    IF Has(info, "trial_ended_at") THEN info["trial_ended_at"]
    ELSE IF Has(info, "left_early_at") THEN info["left_early_at"]
    ELSE EMPTY_STR

\* u has a UsedTrial record that is less than TRIAL_COOLDOWN_DAYS old or has
\* no parseable end timestamp
UsedInCooldown(u) ==
    /\ Has(used, u)
    /\ \/ ~Parses(UsedEnd(used[u]))
       \/ now - UsedEnd(used[u]) < TRIAL_COOLDOWN_DAYS * DayHours

\* C5: a join event of an identity whose UsedTrial record is within the
\* cooldown (or has no parseable end timestamp) creates no ActiveTrial,
\* schedules no reminder or expiry job, and the identity is removed from the
\* channel again (ban followed by unban), in bot.py and in slim_bot.py.
C5_UsedJoinRejected ==
    [][\A u \in Users :
          (JoinStep(u) /\ UsedInCooldown(u))
             => /\ active' = active
                /\ jobs' = jobs
                /\ joining' = joining
                /\ last'.ban]_vars

\* the part of C5 about the stores and the job queue alone
C5_UsedJoinCreatesNothing ==
    [][\A u \in Users :
          (JoinStep(u) /\ UsedInCooldown(u))
             => /\ active' = active
                /\ jobs' = jobs
                /\ joining' = joining]_vars

C5_Witness == last.op = "join" /\ last.res = "rejected" /\ last.ban

\* the last step took a decision that treats the identity as holding a
\* genuine active trial
TrustedAsActive ==
    \/ last.op = "start" /\ last.res = "in_trial"
    \/ last.op = "api_trial_info" /\ last.res = "has_active_trial"
    \/ last.op = "reminder" /\ last.res = "sent"
    \/ last.op = "trial_end" /\ last.res \in {"ended", "cleared_only"}
    \/ last.op = "join" /\ last.res = "already_running"

\* C6: every decision that treats an identity as holding a genuine active
\* trial is taken on an ActiveTrial record whose signature verifies; an
\* altered record is treated like an absent one.
C6_TrustOnlyVerified == TrustedAsActive => last.sigok

\* C7: an out-of-band edit of a stored ActiveTrial's join_time, total_hours or
\* trial_end_at never postpones termination.  The run without the edit ends
\* the trial at the latest with the first sweep after the end of the record
\* as signed; so must the run with the edit: a sweep that starts when that
\* end has passed and no job is due terminates the trial or discards the
\* record, whatever jobs restart reconstruction registered.
C7_EditNeverPostpones ==
    [][\A u \in DOMAIN active \cap DOMAIN orig.trial :
          (sweep_start /\ NoJobDue /\ now >= orig.trial[u]["trial_end_at"])
             => (~Has(active', u) \/ sweep'.cur = u)]_vars

\* the run C7 compares with: a record that was not edited is terminated by
\* the first sweep after its end
C7_UneditedOnTime ==
    [][\A u \in DOMAIN active \cap DOMAIN orig.trial :
          (sweep_start /\ NoJobDue /\ active[u] = orig.trial[u]
             /\ now >= orig.trial[u]["trial_end_at"])
             => (~Has(active', u) \/ sweep'.cur = u)]_vars

\* u holds an ActiveTrial that is valid and whose trial_end_at is in the future
ValidUnexpired(u) ==
    /\ Has(active, u)
    /\ validate_trial_data(active[u], u, now)
    /\ Has(active[u], "trial_end_at")
    /\ Parses(active[u]["trial_end_at"])
    /\ now < active[u]["trial_end_at"]

\* C10: a join event of an identity that holds a valid ActiveTrial whose
\* trial_end_at is in the future changes no record, schedules no reminder or
\* expiry job and sends no welcome notification.
C10_RejoinIdempotent ==
    [][\A u \in Users :
          (JoinStep(u) /\ ValidUnexpired(u))
             => /\ active' = active
                /\ used' = used
                /\ jobs' = jobs
                /\ joining' = joining
                /\ "welcome" \notin last'.msgs]_vars

C10_Witness ==
    /\ last.op = "join" /\ last.res = "already_running"
    /\ ValidUnexpired(last.user)
    /\ jobs # {}

----------------------------------------------------------------------------
(* Signed records (storage.py): records are written through the store for  *)
(* identities and field values drawn from small sets, then read back as    *)
(* written, with one signed field changed, under another identity, or      *)
(* without their signature.  orig holds each record as the store signed it. *)

SignUsers == {1, 2}
JoinTimes == {0, DayHours}
TrialHours == {TRIAL_HOURS_3_DAY, TRIAL_HOURS_5_DAY}
Links == {1, 2}
ExpiryDelays == {INVITE_LINK_EXPIRY_HOURS, INVITE_LINK_EXPIRY_HOURS + 1}

SignUnchanged ==
    UNCHANGED <<impl, lock, weekday0, env, limits, now, used, pending, jobs, procs, joining, sweep, extInvites>>

\* set_active_trial for an empty active_trials.json
write_trial(u, jt, th) ==
    /\ active = EmptyDict
    /\ active' = set_active_trial(active, u,
                    [join_time |-> jt, total_hours |-> th, trial_end_at |-> jt + th])
    /\ orig' = [orig EXCEPT !.trial = active']
    /\ last' = Eff("set_active_trial", u, "signed", {}, FALSE, 0, TRUE)
    /\ UNCHANGED invites
    /\ SignUnchanged

\* set_invite_info for an empty invites.json (api.py 744-750)
write_invite(u, lnk, d) ==
    /\ invites = EmptyDict
    /\ invites' = set_invite_info(invites, u,
                     [invite_link |-> lnk, invite_created_at |-> now,
                      invite_expires_at |-> now + d])
    /\ orig' = [orig EXCEPT !.invite = invites']
    /\ last' = Eff("set_invite_info", u, "signed", {}, FALSE, 0, TRUE)
    /\ UNCHANGED active
    /\ SignUnchanged

\* atomic_create_or_get_invite leaves the unsigned placeholder
reserve_invite(u, d) ==
    /\ invites = EmptyDict
    /\ invites' = atomic_create_or_get_invite(invites, u,
                     [invite_created_at |-> now, invite_expires_at |-> now + d], now).invites
    /\ last' = Eff("atomic_create_or_get_invite", u, "created", {}, FALSE, 0, TRUE)
    /\ UNCHANGED <<active, orig>>
    /\ SignUnchanged

\* atomic_create_or_get_invite for an identity the store holds a record of
get_or_create_invite(u, d) ==
    /\ Has(invites, u)
    /\ LET r == atomic_create_or_get_invite(invites, u,
                    [invite_created_at |-> now, invite_expires_at |-> now + d], now)
       IN /\ invites' = r.invites
          /\ last' = Eff("atomic_create_or_get_invite", u, r.action, {}, FALSE, 0, TRUE)
    /\ UNCHANGED <<active, orig>>
    /\ SignUnchanged

\* finalize_invite_creation signs the placeholder with its link
finalize_invite(u, lnk) ==
    /\ Has(invites, u)
    /\ Get(invites[u], "creating", FALSE)
    /\ invites' = finalize_invite_creation(invites, u, lnk)
    /\ orig' = [orig EXCEPT !.invite = invites']
    /\ last' = Eff("finalize_invite_creation", u, "signed", {}, FALSE, 0, TRUE)
    /\ UNCHANGED active
    /\ SignUnchanged

TrialEdits(rec, f) ==
    IF f = "total_hours" THEN TrialHours \ {rec[f]}
    ELSE {rec[f] + DayHours, UNPARSEABLE}

InviteEdits(rec, f) ==
    IF f = "invite_link" THEN Links \ {rec[f]}
    ELSE {rec[f] + 1, UNPARSEABLE}

\* one signed field of the stored ActiveTrial is changed out of band
edit_trial(u, f, v) ==
    /\ Has(orig.trial, u) /\ Has(active, u) /\ active[u] = orig.trial[u]
    /\ v \in TrialEdits(active[u], f)
    /\ active' = [active EXCEPT ![u] = Put(@, f, v)]
    /\ last' = Eff("edit_trial", u, f, {}, FALSE, 0, TRUE)
    /\ UNCHANGED <<invites, orig>>
    /\ SignUnchanged

edit_invite(u, f, v) ==
    /\ Has(orig.invite, u) /\ Has(invites, u) /\ invites[u] = orig.invite[u]
    /\ v \in InviteEdits(invites[u], f)
    /\ invites' = [invites EXCEPT ![u] = Put(@, f, v)]
    /\ last' = Eff("edit_invite", u, f, {}, FALSE, 0, TRUE)
    /\ UNCHANGED <<active, orig>>
    /\ SignUnchanged

\* the stored record loses its signature field
drop_signature(store, u) ==
    /\ IF store = "trial"
       THEN /\ Has(orig.trial, u) /\ Has(active, u) /\ active[u] = orig.trial[u]
            /\ active' = [active EXCEPT ![u] = Del(@, "signature")]
            /\ UNCHANGED invites
       ELSE /\ Has(orig.invite, u) /\ Has(invites, u) /\ invites[u] = orig.invite[u]
            /\ invites' = [invites EXCEPT ![u] = Del(@, "signature")]
            /\ UNCHANGED active
    /\ last' = Eff("drop_signature", u, store, {}, FALSE, 0, TRUE)
    /\ UNCHANGED orig
    /\ SignUnchanged

\* the record of u is stored under the key of another identity v
move_record(store, u, v) ==
    /\ u # v
    /\ IF store = "trial"
       THEN /\ Has(orig.trial, u) /\ Has(active, u) /\ active[u] = orig.trial[u]
            /\ active' = Put(Del(active, u), v, active[u])
            /\ orig' = [orig EXCEPT !.trial = EmptyDict]
            /\ UNCHANGED invites
       ELSE /\ Has(orig.invite, u) /\ Has(invites, u) /\ invites[u] = orig.invite[u]
            /\ invites' = Put(Del(invites, u), v, invites[u])
            /\ orig' = [orig EXCEPT !.invite = EmptyDict]
            /\ UNCHANGED active
    /\ last' = Eff("move_record", v, store, {}, FALSE, 0, TRUE)
    /\ SignUnchanged

\* clear_active_trial, or the invite file is emptied
clear_record(store, u) ==
    /\ IF store = "trial"
       THEN /\ Has(active, u)
            /\ active' = clear_active_trial(active, u)
            /\ orig' = [orig EXCEPT !.trial = EmptyDict]
            /\ UNCHANGED invites
       ELSE /\ Has(invites, u)
            /\ invites' = Del(invites, u)
            /\ orig' = [orig EXCEPT !.invite = EmptyDict]
            /\ UNCHANGED active
    /\ last' = Eff("clear_record", u, store, {}, FALSE, 0, TRUE)
    /\ SignUnchanged

InitSign ==
    /\ impl \in {"bot", "slim"}
    /\ lock = NoHolder
    /\ weekday0 = Monday
    /\ env = GoodEnv
    /\ limits = NoLimits
    /\ now \in JoinTimes
    /\ used = EmptyDict
    /\ active = EmptyDict
    /\ invites = EmptyDict
    /\ pending = EmptyDict
    /\ jobs = {}
    /\ procs = [p \in Procs |-> IdleProc]
    /\ joining = EmptyDict
    /\ sweep = IdleSweep
    /\ extInvites = [u \in Users |-> 0]
    /\ orig = [trial |-> EmptyDict, invite |-> EmptyDict, trials |-> 0, edits |-> 0]
    /\ last = NoEffect

NextSign ==
    \/ \E u \in SignUsers, jt \in JoinTimes, th \in TrialHours : write_trial(u, jt, th)
    \/ \E u \in SignUsers, lnk \in Links, d \in ExpiryDelays : write_invite(u, lnk, d)
    \/ \E u \in SignUsers, d \in ExpiryDelays : reserve_invite(u, d)
    \/ \E u \in SignUsers, d \in ExpiryDelays : get_or_create_invite(u, d)
    \/ \E u \in SignUsers, lnk \in Links : finalize_invite(u, lnk)
    \/ \E u \in DOMAIN orig.trial, f \in {"join_time", "total_hours", "trial_end_at"} :
          \E v \in TrialEdits(orig.trial[u], f) : edit_trial(u, f, v)
    \/ \E u \in DOMAIN orig.invite, f \in {"invite_link", "invite_created_at", "invite_expires_at"} :
          \E v \in InviteEdits(orig.invite[u], f) : edit_invite(u, f, v)
    \/ \E store \in {"trial", "invite"}, u \in SignUsers : drop_signature(store, u)
    \/ \E store \in {"trial", "invite"}, u \in SignUsers, v \in SignUsers : move_record(store, u, v)
    \/ \E store \in {"trial", "invite"}, u \in SignUsers : clear_record(store, u)

SpecSign == InitSign /\ [][NextSign]_vars

\* C8: a record written by set_active_trial (set_invite_info,
\* finalize_invite_creation) and read back as written passes
\* _verify_trial_signature (_verify_invite_signature) for its identity; with
\* one signed field changed, under another identity, or without its
\* signature field, it fails.
C8_SignatureRoundTrip ==
    /\ \A u \in DOMAIN active :
          _verify_trial_signature(active[u], u)
             <=> (Has(orig.trial, u) /\ active[u] = orig.trial[u])
    /\ \A u \in DOMAIN invites :
          _verify_invite_signature(invites[u], u)
             <=> (Has(orig.invite, u) /\ invites[u] = orig.invite[u])
    /\ \A u \in DOMAIN orig.trial : \A v \in SignUsers \ {u} :
          ~_verify_trial_signature(orig.trial[u], v)
    /\ \A u \in DOMAIN orig.invite : \A v \in SignUsers \ {u} :
          ~_verify_invite_signature(orig.invite[u], v)

\* a finalized invite and a trial were each read back with one field changed
C8_Witness ==
    /\ last.op \in {"edit_trial", "edit_invite"}
    /\ \E u \in DOMAIN active :
          Has(active[u], "signature") /\ ~_verify_trial_signature(active[u], u)
    /\ \E u \in DOMAIN invites :
          Has(invites[u], "signature") /\ ~_verify_invite_signature(invites[u], u)

----------------------------------------------------------------------------
(* Claims about the three termination triggers and the reminders           *)
(* (SpecTrial)                                                             *)

\* the sweep is suspended at an await while it terminates the trial of u
SweepTerminating(u) == sweep.pc # "idle" /\ sweep.cur = u

\* this step is the expiry job or the leave event performing the termination
\* effects (write of UsedTrial, notification) for u
OtherTriggerTerminates(u) ==
    /\ last'.user = u
    /\ \/ last'.op = "trial_end" /\ last'.res = "ended"
       \/ last'.op = "leave" /\ last'.res = "marked_used"

\* C11: the termination effects of a trial are performed by at most one of
\* the expiry job, the leave event and the hourly sweep: while the sweep is
\* suspended in the termination of u no other trigger performs them for u,
\* and the sweep starts terminating u only when u's ActiveTrial is in the
\* store at that moment
C11_OneTriggerTerminates ==
    [][\A u \in Users :
          /\ OtherTriggerTerminates(u) => ~SweepTerminating(u)
          /\ (SweepTerminating(u)' /\ ~SweepTerminating(u)) => Has(active, u)]_vars

\* this step is a reminder job of u that sent its message
ReminderSent(u) ==
    last'.op = "reminder" /\ last'.user = u /\ last'.res = "sent"

\* the ActiveTrial of u is in the store and the clock is before its end
RunningNow(u) ==
    /\ Has(active, u)
    /\ Has(active[u], "trial_end_at")
    /\ Parses(active[u]["trial_end_at"])
    /\ now < active[u]["trial_end_at"]

\* C12: a reminder job sends its message only if, when it runs, the identity
\* has an ActiveTrial record and the clock is before the trial_end_at of
\* that record; a reminder job left over from a trial that was ended early
\* sends nothing
C12_ReminderOnlyWhileRunning ==
    [][\A u \in Users : ReminderSent(u) => RunningNow(u)]_vars

\* C12 restricted to records that are as the store signed them
C12_UneditedReminder ==
    [][\A u \in Users :
          (ReminderSent(u) /\ Has(orig.trial, u) /\ active[u] = orig.trial[u])
             => RunningNow(u)]_vars

\* a reminder job left over from a trial that a leave ended was skipped
C12_SkippedAfterLeave ==
    [][\A u \in Users :
          (last'.op = "reminder" /\ last'.user = u /\ ~Has(active, u))
             => last'.res = "skipped" /\ last'.msgs = {}]_vars

\* the reminders of a trial type as <<job, offset in minutes>>
ReminderPlan(total_hours) ==
    IF total_hours = TRIAL_HOURS_5_DAY
    THEN {<<"trial_reminder_5day_1", REMINDER_1_MINUTES>>,
          <<"trial_reminder_5day_3", REMINDER_3_MINUTES>>,
          <<"trial_reminder_5day_4", REMINDER_4_MINUTES>>}
    ELSE {<<"trial_reminder_3day_1", REMINDER_1_MINUTES>>,
          <<"trial_reminder_3day_2", REMINDER_2_MINUTES>>}

\* the reminders of rec whose fire time is after t
RemainingReminders(u, rec, t) ==
    {[fn |-> r[1], user |-> u, at |-> rec["join_time"] + Hours(r[2])] :
        r \in {x \in ReminderPlan(rec["total_hours"]) :
                  rec["join_time"] + Hours(x[2]) > t}}

\* C13: after the restoration at process start, for every valid persisted
\* ActiveTrial the scheduled reminder jobs are exactly the reminders of its
\* trial type whose fire time join_time + offset is still in the future,
\* and when trial_end_at is already past trial_end is scheduled to run at
\* once
C13_RestartReconstruction ==
    [][restart =>
          \A u \in DOMAIN active' :
             validate_trial_data(active'[u], u, now) =>
                /\ {j \in jobs' : j.user = u /\ j.fn # "trial_end"}
                      = RemainingReminders(u, active'[u], now)
                /\ active'[u]["trial_end_at"] <= now
                      => [fn |-> "trial_end", user |-> u, at |-> now] \in jobs']_vars

\* a restart found a valid ActiveTrial with one reminder already past and
\* others still to come, and scheduled jobs for it
C13_Witness ==
    /\ last.op = "restart"
    /\ \E u \in DOMAIN active :
         /\ validate_trial_data(active[u], u, now)
         /\ now >= active[u]["join_time"] + Hours(REMINDER_1_MINUTES)
         /\ now < active[u]["trial_end_at"]
         /\ \E j \in jobs : j.user = u /\ j.fn # "trial_end" /\ j.at > now

\* a restart found a valid ActiveTrial past its end
C13_WitnessExpired ==
    /\ last.op = "restart"
    /\ \E u \in DOMAIN active :
         /\ validate_trial_data(active[u], u, now)
         /\ now >= active[u]["trial_end_at"]
         /\ [fn |-> "trial_end", user |-> u, at |-> now] \in jobs

----------------------------------------------------------------------------
(* The hourly sweep as the only mechanism that ends trials (SpecSweep):    *)
(* the one-shot jobs never fire, run_repeating keeps starting the sweep    *)
(* (bot.py 2591-2601, slim_bot.py 1631) and every await of a running sweep *)
(* returns.                                                                *)

\* the scheduler fails: the one-shot jobs registered so far are lost
jobs_lost ==
    /\ jobs # {}
    /\ jobs' = {}
    /\ last' = Eff("jobs_lost", 0, "lost", {}, FALSE, 0, TRUE)
    /\ UNCHANGED <<now, used, active, joining, sweep, orig>>
    /\ TrialUnchanged

NextSweep ==
    \/ \E u \in Users, sendOk \in BOOLEAN : ~Has(active, u) /\ join(u, sendOk)
    \/ \E u \in Users, sendOk \in BOOLEAN : join_welcome(u, sendOk)
    \/ \E u \in Users, actor \in {"user", "bot"}, getMeOk \in BOOLEAN : leave(u, actor, getMeOk)
    \/ sweep_start
    \/ sweep_ban
    \/ sweep_notify
    \/ jobs_lost
    \/ \E u \in DOMAIN active, f \in {"join_time", "total_hours", "trial_end_at"} :
          \E v \in TamperValues(active[u], f) : Tamper(u, f, v)
    \/ TickDay
    \/ TickCooldown

SpecSweep ==
    /\ InitTrial
    /\ [][NextSweep]_vars
    /\ WF_vars(sweep_start)
    /\ WF_vars(sweep_ban)
    /\ WF_vars(sweep_notify)

\* the stored end of u's ActiveTrial has passed
Expired(u) ==
    /\ Has(active, u)
    /\ Has(active[u], "trial_end_at")
    /\ Parses(active[u]["trial_end_at"])
    /\ now >= active[u]["trial_end_at"]

\* the trial of u is terminated
Terminated(u) == ~Has(active, u) /\ has_used_trial(used, u)

\* C14: when the sweep keeps running and no one-shot job fires, every
\* ActiveTrial whose trial_end_at has passed is eventually terminated: its
\* ActiveTrial record is removed and the identity has a UsedTrial record
C14_SweepTerminatesExpired ==
    \A u \in Users : Expired(u) ~> Terminated(u)

\* C14 restricted to the records that pass validate_trial_data: an expired
\* valid ActiveTrial is terminated unless it stops being valid first
C14_ValidExpiredTerminated ==
    \A u \in Users :
       (Expired(u) /\ validate_trial_data(active[u], u, now))
          ~> (Terminated(u)
              \/ (Has(active, u) /\ ~validate_trial_data(active[u], u, now)))

----------------------------------------------------------------------------
(* Rate limiters (api.py 139-165, web_app.py 77-92, storage.py 461-493).   *)
(* A timestamp of a limiter is the hour of the call; a window is given in  *)
(* minutes, as in the code.                                                *)

\* [ts for ts in list if ts > now - window]: the timestamps inside the window
InWindow(list, t, window_minutes) ==
    SelectSeq(list, LAMBDA ts : (t - ts) * 60 < window_minutes)

\* check_ip_rate_limit (api.py 139-150, web_app.py 77-92) on the table tbl
check_ip_rate_limit(tbl, ip, t, max_requests, window_minutes) ==
    LET kept == InWindow(Get(tbl, ip, << >>), t, window_minutes) IN
    IF Len(kept) >= max_requests
    THEN [ok |-> FALSE, tbl |-> Put(tbl, ip, kept)]
    ELSE [ok |-> TRUE, tbl |-> Put(tbl, ip, Append(kept, t))]

\* check_tg_rate_limit (api.py 153-165); the key is str(tg_id)
check_tg_rate_limit(tbl, tg_id, t, max_requests, window_minutes) ==
    LET kept == InWindow(Get(tbl, tg_id, << >>), t, window_minutes) IN
    IF Len(kept) >= max_requests
    THEN [ok |-> FALSE, tbl |-> Put(tbl, tg_id, kept)]
    ELSE [ok |-> TRUE, tbl |-> Put(tbl, tg_id, Append(kept, t))]

\* f"{action}_attempts"
RateKey(action) ==
    CASE action = "verification" -> "verification_attempts"
      [] OTHER -> "attempts"

\* storage.check_rate_limit (storage.py 461-493): the attempts are kept in the
\* identity's record of pending_verifications.json; a rejected call saves
\* nothing
check_rate_limit(pendD, tg_id, action, t, max_attempts, window_minutes) ==
    LET user_data == Get(pendD, tg_id, EmptyDict)
        attempts == Get(user_data, RateKey(action), << >>)
        valid_attempts == SelectSeq(attempts,
                             LAMBDA ts : Parses(ts) /\ (t - ts) * 60 < window_minutes)
    IN IF Len(valid_attempts) >= max_attempts
       THEN [ok |-> FALSE, pending |-> pendD]
       ELSE [ok |-> TRUE,
             pending |-> Put(pendD, tg_id,
                             Put(user_data, RateKey(action), Append(valid_attempts, t)))]

\* ghost: the call just made, and one more allowed call for key at t
Called(fn, key, max, window, t, ok) ==
    [fn |-> fn,
     ip |-> IF fn \in {"api_tg", "store"} THEN "" ELSE key,
     tg |-> IF fn \in {"api_tg", "store"} THEN key ELSE 0,
     max |-> max, window |-> window, at |-> t, ok |-> ok]

\* the key of a call: an identity for the limiters of identities, an address
\* for the others
CallKey(c) == IF c.fn \in {"api_tg", "store"} THEN c.tg ELSE c.ip

\* (the log keeps the calls no window of a call site has left behind: the
\* longest window is 60 minutes)
Allow(log, key, t, ok) ==
    LET recent == [k \in {x \in DOMAIN log : (t - x[2]) * 60 < 60} |-> log[k]]
    IN IF ok THEN Put(recent, <<key, t>>, Get(recent, <<key, t>>, 0) + 1) ELSE recent

\* the addresses requests come from and what the reputation service knows of
\* them
Ips == {"clean_ip", "vpn_ip", "blocked_ip"}

IpReputation(ip) ==
    CASE ip = "vpn_ip" -> "vpn"
      [] ip = "blocked_ip" -> "blocked"
      [] OTHER -> "clean"

\* the (max_requests, window_minutes) pairs of the call sites
ApiIpLimits == {<<3, 10>>, <<5, 60>>, <<3, 30>>, <<5, 15>>, <<3, 15>>}
WebIpLimits == {<<20, 15>>, <<5, 60>>}
TgLimit == <<10, 60>>
VerificationLimit == <<3, 60>>

\* what the reputation service answers for a request from ip: its verdict, or
\* nothing when the lookup fails
Lookup(ip, lookupOk) == IF lookupOk THEN IpReputation(ip) ELSE "failed"

RateUnchanged ==
    UNCHANGED <<impl, lock, weekday0, env, used, active, invites, jobs, procs, joining,
                sweep, extInvites, orig>>

\* a request that reaches check_ip_rate_limit of api.py with the limits of one
\* of its call sites (api.py 288, 517, 1264, 1378, 1387)
api_ip_call(ip, lim) ==
    LET r == check_ip_rate_limit(limits.api_ip, ip, now, lim[1], lim[2]) IN
    /\ limits' = [limits EXCEPT
                     !.api_ip = r.tbl,
                     !.allowed.api_ip = Allow(@, ip, now, r.ok),
                     !.call = Called("api_ip", ip, lim[1], lim[2], now, r.ok)]
    /\ last' = Eff("check_ip_rate_limit", 0, IF r.ok THEN "allowed" ELSE "rejected",
                   {}, FALSE, 0, TRUE)
    /\ UNCHANGED <<now, pending>>
    /\ RateUnchanged

\* require_telegram_auth reaches check_tg_rate_limit (api.py 299)
api_tg_call(tg_id) ==
    LET r == check_tg_rate_limit(limits.api_tg, tg_id, now, TgLimit[1], TgLimit[2]) IN
    /\ limits' = [limits EXCEPT
                     !.api_tg = r.tbl,
                     !.allowed.api_tg = Allow(@, tg_id, now, r.ok),
                     !.call = Called("api_tg", tg_id, TgLimit[1], TgLimit[2], now, r.ok)]
    /\ last' = Eff("check_tg_rate_limit", tg_id, IF r.ok THEN "allowed" ELSE "rejected",
                   {}, FALSE, 0, TRUE)
    /\ UNCHANGED <<now, pending>>
    /\ RateUnchanged

\* a request that changes nothing but the table of web_app.py: GET /trial
\* (web_app.py 978) or the endpoint of web_app.py 923
web_ip_call(ip, lim) ==
    LET r == check_ip_rate_limit(limits.web_ip, ip, now, lim[1], lim[2]) IN
    /\ limits' = [limits EXCEPT
                     !.web_ip = r.tbl,
                     !.allowed.web_ip = Allow(@, ip, now, r.ok),
                     !.call = Called("web_ip", ip, lim[1], lim[2], now, r.ok)]
    /\ last' = Eff("web_check_ip_rate_limit", 0, IF r.ok THEN "allowed" ELSE "rejected",
                   {}, FALSE, 0, TRUE)
    /\ UNCHANGED <<now, pending>>
    /\ RateUnchanged

\* POST /trial (web_app.py 975-1152) for a request that carries tg_id
web_trial_post(tg_id, ip, lookupOk, formOk) ==
    LET r1 == check_ip_rate_limit(limits.web_ip, ip, now, 5, 60)
        r2 == check_rate_limit(pending, tg_id, "verification", now,
                               VerificationLimit[1], VerificationLimit[2])
        verdict == Lookup(ip, lookupOk)
        info == [name |-> "name", country |-> "country", ip |-> ip,
                 step1_ok |-> TRUE, status |-> "step1_passed", created_at |-> now]
        reached == r1.ok /\ ~has_used_trial(used, tg_id)
    IN
    /\ limits' = [limits EXCEPT
                     !.web_ip = r1.tbl,
                     !.allowed.web_ip = Allow(@, ip, now, r1.ok),
                     !.allowed.store = IF reached THEN Allow(@, tg_id, now, r2.ok) ELSE @,
                     !.call = IF reached
                              THEN Called("store", tg_id, VerificationLimit[1],
                                          VerificationLimit[2], now, r2.ok)
                              ELSE Called("web_ip", ip, 5, 60, now, r1.ok)]
    /\ IF ~r1.ok
       THEN /\ last' = Eff("web_trial_post", tg_id, "ip_limited", {}, FALSE, 0, TRUE)
            /\ UNCHANGED pending
       ELSE IF has_used_trial(used, tg_id)
       THEN /\ last' = Eff("web_trial_post", tg_id, "already_used", {}, FALSE, 0, TRUE)
            /\ UNCHANGED pending
       ELSE IF ~r2.ok
       THEN /\ last' = Eff("web_trial_post", tg_id, "rate_limited", {}, FALSE, 0, TRUE)
            /\ UNCHANGED pending
       ELSE IF verdict \in {"vpn", "blocked"}
       THEN /\ last' = Eff("web_trial_post", tg_id, verdict, {}, FALSE, 0, TRUE)
            /\ pending' = r2.pending
       ELSE IF ~formOk
       THEN /\ last' = Eff("web_trial_post", tg_id, "bad_form", {}, FALSE, 0, TRUE)
            /\ pending' = r2.pending
       ELSE /\ last' = Eff("web_trial_post", tg_id, "step1_passed", {}, FALSE, 0, TRUE)
            /\ pending' = set_pending_verification(r2.pending, tg_id, info)
    /\ UNCHANGED now
    /\ RateUnchanged

MaxHour == 1

\* an hour passes
TickHour ==
    /\ now < MaxHour
    /\ now' = now + 1
    /\ last' = Eff("tick", 0, "hour", {}, FALSE, 0, TRUE)
    /\ UNCHANGED <<limits, pending>>
    /\ RateUnchanged

InitRate ==
    /\ impl = "bot"
    /\ lock = NoHolder
    /\ weekday0 = Monday
    /\ env = GoodEnv
    /\ limits = NoLimits
    /\ now = 0
    /\ used = EmptyDict
    /\ active = EmptyDict
    /\ invites = EmptyDict
    /\ pending = EmptyDict
    /\ jobs = {}
    /\ procs = [p \in Procs |-> IdleProc]
    /\ joining = EmptyDict
    /\ sweep = IdleSweep
    /\ extInvites = [u \in Users |-> 0]
    /\ orig = [trial |-> EmptyDict, invite |-> EmptyDict, trials |-> 0, edits |-> 0]
    /\ last = NoEffect

\* the tables are separate pieces of state and a call touches one of them:
\* a run exercises the limiters of one process
ApiQuiet == limits.api_ip = EmptyDict /\ limits.api_tg = EmptyDict
WebQuiet == limits.web_ip = EmptyDict /\ pending = EmptyDict

RateIps == {"clean_ip", "vpn_ip"}

NextRate ==
    \/ \E ip \in RateIps, lim \in ApiIpLimits :
          WebQuiet /\ limits.api_tg = EmptyDict /\ api_ip_call(ip, lim)
    \/ \E tg_id \in Users :
          WebQuiet /\ limits.api_ip = EmptyDict /\ api_tg_call(tg_id)
    \/ \E lim \in WebIpLimits : ApiQuiet /\ web_ip_call("clean_ip", lim)
    \/ \E tg_id \in Users, lookupOk \in BOOLEAN, formOk \in BOOLEAN :
          ApiQuiet /\ web_trial_post(tg_id, "clean_ip", lookupOk, formOk)
    \/ TickHour

SpecRate == InitRate /\ [][NextRate]_vars

----------------------------------------------------------------------------
(* Claims about the rate limiters (SpecRate)                               *)

\* the timestamps the limiter fn keeps for key, in the stores pendD and lim
RecordedIn(pendD, lim, fn, key) ==
    IF fn = "store"
    THEN Get(Get(pendD, key, EmptyDict), RateKey("verification"), << >>)
    ELSE Get(lim[fn], key, << >>)

Recorded(fn, key) == RecordedIn(pending, limits, fn, key)

\* how many calls of a limiter for key were allowed inside the window that
\* ends at t, the call at t included
RECURSIVE AllowedSince(_, _, _, _)
AllowedSince(log, key, t, hours) ==
    IF hours = 0 \/ t < 0 THEN 0
    ELSE Get(log, <<key, t>>, 0) + AllowedSince(log, key, t - 1, hours - 1)

AllowedInWindow(log, key, t, window_minutes) ==
    AllowedSince(log, key, t, (window_minutes + 59) \div 60)

\* this step called a rate limiter
LimiterStep ==
    last'.op \in {"check_ip_rate_limit", "check_tg_rate_limit",
                  "web_check_ip_rate_limit", "web_trial_post"}

\* the boundary of the limiter call this step made
Boundary ==
    LET c == limits'.call
        n == AllowedInWindow(limits'.allowed[c.fn], CallKey(c), c.at, c.window)
        before == RecordedIn(pending, limits, c.fn, CallKey(c))
        after == RecordedIn(pending', limits', c.fn, CallKey(c))
    IN /\ c.ok => /\ n <= c.max
                  /\ after # << >>
                  /\ after[Len(after)] = c.at
       /\ ~c.ok => /\ n >= c.max
                   /\ Len(after) <= Len(before)

\* C15: for each limiter and key, max_requests calls inside one window are
\* allowed and each appends its timestamp, the next call inside the window
\* is rejected and appends nothing, and a call that finds every recorded
\* timestamp a window old is allowed
C15_RateLimitBoundary ==
    [][LimiterStep => Boundary]_vars

\* C15 for the in-memory limiters of api.py and web_app.py
C15_InMemoryBoundary ==
    [][(LimiterStep /\ limits'.call.fn # "store") => Boundary]_vars

\* a limiter allowed its full quota inside one window and rejected the next
\* call
C15_Witness ==
    /\ limits.call.fn \in {"api_ip", "api_tg", "web_ip"}
    /\ ~limits.call.ok
    /\ Len(Recorded(limits.call.fn, CallKey(limits.call))) = limits.call.max

----------------------------------------------------------------------------
(* The verification funnel of api.py: /api/verify/ip, /api/verify/submit,  *)
(* /api/verify/phone and /api/fallback/verify.  Each request is one step;  *)
(* the requests of the funnel do not sleep between their storage calls.    *)

\* dict.update
Update(d, upd) ==
    [x \in (DOMAIN d) \cup (DOMAIN upd) |-> IF x \in DOMAIN upd THEN upd[x] ELSE d[x]]

\* check_ip_rate_limit of api.py on the limiter state lim:
\* [ok, limits |-> the limiter state afterwards]
ApiIpChecked(lim, ip, t, max_requests, window_minutes) ==
    LET r == check_ip_rate_limit(lim.api_ip, ip, t, max_requests, window_minutes) IN
    [ok |-> r.ok,
     limits |-> [lim EXCEPT
                    !.api_ip = r.tbl,
                    !.allowed.api_ip = Allow(@, ip, t, r.ok),
                    !.call = Called("api_ip", ip, max_requests, window_minutes, t, r.ok)]]

ApiTgChecked(lim, tg_id, t) ==
    LET r == check_tg_rate_limit(lim.api_tg, tg_id, t, TgLimit[1], TgLimit[2]) IN
    [ok |-> r.ok,
     limits |-> [lim EXCEPT
                    !.api_tg = r.tbl,
                    !.allowed.api_tg = Allow(@, tg_id, t, r.ok),
                    !.call = Called("api_tg", tg_id, TgLimit[1], TgLimit[2], t, r.ok)]]

\* require_telegram_auth (api.py 248-307) for a request that names tg_id:
\* without validated initData the address is limited to 3 requests in 10
\* minutes, then the identity is limited
require_telegram_auth(lim, tg_id, ip, validated_via_init_data, t) ==
    LET a == IF validated_via_init_data
             THEN [ok |-> TRUE, limits |-> lim]
             ELSE ApiIpChecked(lim, ip, t, 3, 10)
    IN IF ~a.ok THEN a ELSE ApiTgChecked(a.limits, tg_id, t)

\* check_ip_status of api.py (352-387): (is_vpn, is_blocked, api_failed,
\* country_code) for the verdict of the lookup
BlockedRegion == "blocked_region"

CountryCode(verdict) ==
    CASE verdict = "blocked" -> BlockedRegion
      [] verdict = "failed" -> ""
      [] OTHER -> "other_region"

\* GET /api/verify/ip (api.py 509-541)
api_verify_ip(tg_id, ip, validated, lookupOk) ==
    LET auth == require_telegram_auth(limits, tg_id, ip, validated, now)
        r == ApiIpChecked(auth.limits, ip, now, 5, 60)
        verdict == Lookup(ip, lookupOk)
        api_failed == verdict = "failed"
        existing == Update(Get(pending, tg_id, EmptyDict),
                           [ip_address |-> ip, ip_check_at |-> now,
                            ip_check_bypassed |-> api_failed,
                            ip_country_code |-> CountryCode(verdict)])
        stored == IF api_failed
                  THEN Update(existing, [requires_manual_review |-> TRUE,
                                         ip_check_reason |-> "api_quota_or_failure"])
                  ELSE existing
    IN
    /\ IF ~auth.ok
       THEN /\ limits' = auth.limits
            /\ last' = Eff("api_verify_ip", tg_id, "rate_limited", {}, FALSE, 0, TRUE)
            /\ UNCHANGED pending
       ELSE IF ~r.ok
       THEN /\ limits' = r.limits
            /\ last' = Eff("api_verify_ip", tg_id, "ip_limited", {}, FALSE, 0, TRUE)
            /\ UNCHANGED pending
       ELSE /\ limits' = r.limits
            /\ last' = Eff("api_verify_ip", tg_id, verdict, {}, FALSE, 0, TRUE)
            /\ pending' = set_pending_verification(pending, tg_id, stored)
    /\ UNCHANGED now
    /\ RateUnchanged

\* POST /api/verify/submit (api.py 546-582): ip_bypassed is the flag the
\* client sends in the body
api_verify_submit(tg_id, ip, validated, formOk, ip_bypassed) ==
    LET auth == require_telegram_auth(limits, tg_id, ip, validated, now)
        existing == Update(Get(pending, tg_id, EmptyDict),
                           [name |-> "name", country |-> "country",
                            step1_ok |-> TRUE, status |-> "step1_passed",
                            verified_at |-> now])
        stored == IF ip_bypassed
                  THEN Update(existing, [ip_check_bypassed |-> TRUE,
                                         requires_manual_review |-> TRUE])
                  ELSE existing
    IN
    /\ limits' = auth.limits
    /\ IF ~auth.ok
       THEN /\ last' = Eff("api_verify_submit", tg_id, "rate_limited", {}, FALSE, 0, TRUE)
            /\ UNCHANGED pending
       ELSE IF ~formOk
       THEN /\ last' = Eff("api_verify_submit", tg_id, "bad_form", {}, FALSE, 0, TRUE)
            /\ UNCHANGED pending
       ELSE /\ last' = Eff("api_verify_submit", tg_id, "step1_passed",
                           {"step1_complete"}, FALSE, 0, TRUE)
            /\ pending' = set_pending_verification(pending, tg_id, stored)
    /\ UNCHANGED now
    /\ RateUnchanged

\* the numbers a request can carry: none, one that starts with
\* BLOCKED_PHONE_COUNTRY_CODE, one that does not
Phones == {"", "blocked_number", "other_number"}

\* POST /api/verify/phone (api.py 624-667)
api_verify_phone(tg_id, ip, validated, phone) ==
    LET auth == require_telegram_auth(limits, tg_id, ip, validated, now)
        existing == Get(pending, tg_id, EmptyDict)
        existing_link == get_valid_invite_link(invites, tg_id, now)
    IN
    /\ limits' = auth.limits
    /\ IF ~auth.ok
       THEN /\ last' = Eff("api_verify_phone", tg_id, "rate_limited", {}, FALSE, 0, TRUE)
            /\ UNCHANGED pending
       ELSE IF phone = ""
       THEN /\ last' = Eff("api_verify_phone", tg_id, "no_phone", {}, FALSE, 0, TRUE)
            /\ UNCHANGED pending
       ELSE IF phone = "blocked_number"
       THEN /\ last' = Eff("api_verify_phone", tg_id, "blocked_phone", {}, FALSE, 0, TRUE)
            /\ pending' = set_pending_verification(pending, tg_id,
                              Update(existing, [status |-> "blocked_phone",
                                                phone |-> phone]))
       ELSE IF existing_link # 0
       THEN /\ last' = Eff("api_verify_phone", tg_id, "existing", {}, FALSE, 0, TRUE)
            /\ UNCHANGED pending
       ELSE /\ last' = Eff("api_verify_phone", tg_id, "phone_verified", {}, FALSE, 0, TRUE)
            /\ pending' = set_pending_verification(pending, tg_id,
                              Update(existing, [phone |-> phone,
                                                phone_verified_at |-> now,
                                                status |-> "phone_verified"]))
    /\ UNCHANGED now
    /\ RateUnchanged

\* POST /api/fallback/verify (api.py 1225-1320); the route is not behind
\* require_telegram_auth
api_fallback_verify(tg_id, ip, originOk, lookupOk, formOk) ==
    LET r == ApiIpChecked(limits, ip, now, 3, 30)
        verdict == Lookup(ip, lookupOk)
        is_vpn == verdict = "vpn"
        is_blocked == verdict = "blocked"
        api_failed == verdict = "failed"
        existing == Update(Get(pending, tg_id, EmptyDict),
                           [tg_id |-> tg_id, name |-> "name", country |-> "country",
                            ip_address |-> ip,
                            ip_country_code |-> CountryCode(verdict),
                            step1_ok |-> TRUE, status |-> "step1_passed",
                            verified_at |-> now, fallback_flow |-> TRUE])
        stored == IF api_failed
                  THEN Update(existing, [ip_check_bypassed |-> TRUE,
                                         requires_manual_review |-> TRUE])
                  ELSE existing
    IN
    /\ IF ~originOk
       THEN /\ last' = Eff("api_fallback_verify", tg_id, "bad_origin", {}, FALSE, 0, TRUE)
            /\ UNCHANGED <<limits, pending>>
       ELSE IF ~r.ok
       THEN /\ last' = Eff("api_fallback_verify", tg_id, "ip_limited", {}, FALSE, 0, TRUE)
            /\ limits' = r.limits
            /\ UNCHANGED pending
       ELSE IF ~formOk
       THEN /\ last' = Eff("api_fallback_verify", tg_id, "bad_form", {}, FALSE, 0, TRUE)
            /\ limits' = r.limits
            /\ UNCHANGED pending
       ELSE IF (is_vpn \/ is_blocked) /\ ~api_failed
       THEN /\ last' = Eff("api_fallback_verify", tg_id, verdict, {}, FALSE, 0, TRUE)
            /\ limits' = r.limits
            /\ UNCHANGED pending
       ELSE /\ last' = Eff("api_fallback_verify", tg_id, "step1_passed",
                           {"step1_complete"}, FALSE, 0, TRUE)
            /\ limits' = r.limits
            /\ pending' = set_pending_verification(pending, tg_id, stored)
    /\ UNCHANGED now
    /\ RateUnchanged

----------------------------------------------------------------------------
(* Specification of the funnel: the requests of one identity to the        *)
(* verification endpoints, to the contact handler of the bot and to        *)
(* /api/trial/invite, from an identity the system has never seen.          *)

MaxRequests == 3

RECURSIVE Stamps(_)
\* the number of timestamps a limiter table holds
Stamps(tbl) ==
    IF DOMAIN tbl = {} THEN 0
    ELSE LET k == CHOOSE x \in DOMAIN tbl : TRUE IN Len(tbl[k]) + Stamps(Del(tbl, k))

\* the requests the limiters have counted
RequestsSeen == Stamps(limits.api_ip) + Stamps(limits.api_tg) + Stamps(limits.web_ip)

InitVerify ==
    /\ impl \in {"bot", "slim"}
    /\ lock = NoHolder
    /\ weekday0 = Monday
    /\ env = GoodEnv
    /\ limits = NoLimits
    /\ now = 0
    /\ used = EmptyDict
    /\ active = EmptyDict
    /\ invites = EmptyDict
    /\ pending = EmptyDict
    /\ jobs = {}
    /\ procs = [p \in Procs |-> IdleProc]
    /\ joining = EmptyDict
    /\ sweep = IdleSweep
    /\ extInvites = [u \in Users |-> 0]
    /\ orig = [trial |-> EmptyDict, invite |-> EmptyDict, trials |-> 0, edits |-> 0]
    /\ last = NoEffect

\* the addresses the requests of a run come from, and the one worker that
\* serves the invite requests of the run
VerifyIps == {"clean_ip", "vpn_ip"}
VerifyProcs == {1}

NextVerify ==
    \/ \E tg_id \in Users, ip \in VerifyIps, validated \in BOOLEAN, lookupOk \in BOOLEAN :
          RequestsSeen < MaxRequests /\ api_verify_ip(tg_id, ip, validated, lookupOk)
    \/ \E tg_id \in Users, ip \in VerifyIps, validated \in BOOLEAN, formOk \in BOOLEAN,
          ip_bypassed \in BOOLEAN :
          RequestsSeen < MaxRequests
          /\ api_verify_submit(tg_id, ip, validated, formOk, ip_bypassed)
    \/ \E tg_id \in Users, ip \in VerifyIps, validated \in BOOLEAN, phone \in Phones :
          RequestsSeen < MaxRequests /\ api_verify_phone(tg_id, ip, validated, phone)
    \/ \E tg_id \in Users, ip \in VerifyIps, originOk \in BOOLEAN, lookupOk \in BOOLEAN,
          formOk \in BOOLEAN :
          RequestsSeen < MaxRequests
          /\ api_fallback_verify(tg_id, ip, originOk, lookupOk, formOk)
    \/ \E tg_id \in Users, ip \in VerifyIps, lookupOk \in BOOLEAN, formOk \in BOOLEAN :
          RequestsSeen < MaxRequests /\ web_trial_post(tg_id, ip, lookupOk, formOk)
    \/ \E p \in VerifyProcs, u \in Users, contact \in {"own", "other", "none"}, blocked \in BOOLEAN :
          bot_contact_handler(p, u, contact, blocked)
    \/ \E p \in VerifyProcs, u \in Users, contact \in {"own", "other", "none"}, blocked \in BOOLEAN :
          slim_contact_handler(p, u, contact, blocked)
    \/ \E p \in VerifyProcs, outcome \in {"ok", "failed", "reply_failed"} : contact_create(p, outcome)
    \/ \E p \in VerifyProcs : contact_finish(p)
    \/ \E p \in VerifyProcs, u \in Users, v \in BOOLEAN : api_trial_invite(p, u, v)
    \/ \E p \in VerifyProcs : api_invite_get_active(p)
    \/ \E p \in VerifyProcs : api_invite_get_link(p)
    \/ \E p \in VerifyProcs : api_invite_get_pending(p)
    \/ \E p \in VerifyProcs, ok \in BOOLEAN : api_invite_create(p, ok)
    \/ \E p \in VerifyProcs : api_invite_set(p)
    \/ \E p \in VerifyProcs : api_invite_clear(p)

SpecVerify == InitVerify /\ [][NextVerify]_vars

VerifyTypeOK == \A u \in DOMAIN pending : Get(pending[u], "status", "none") \in
    {"none", "step1_passed", "phone_verified", "blocked_phone", "blocked_phone_india",
     "verified"}

----------------------------------------------------------------------------
(* Claims about the funnel (SpecVerify)                                    *)

\* the record of u in pending_verifications.json shows a submitted step 1
Step1Submitted(u) == Get(Get(pending, u, EmptyDict), "step1_ok", FALSE)

\* this step is the external call that creates an invitation for u, made by
\* a request of kind opname
InviteCreatedBy(u, opname) ==
    /\ extInvites'[u] # extInvites[u]
    /\ \E p \in Procs : procs[p].u = u /\ procs[p].op = opname /\ procs'[p] # procs[p]

\* C16: an external invitation is created for an identity only after its
\* PendingVerification showed a submitted step 1 (SpecVerify serves the
\* invite requests of a run one at a time and no request removes step1_ok
\* before the invitation exists, so the record of the identity shows it at
\* the creation).
C16_FunnelOrder ==
    [][\A u \in Users : extInvites'[u] # extInvites[u] => Step1Submitted(u)]_vars

\* C16 for the invitations /api/trial/invite creates
C16_ApiInviteAfterStep1 ==
    [][\A u \in Users : InviteCreatedBy(u, "api_trial_invite") => Step1Submitted(u)]_vars

\* C16 for the invitations the contact handler of the bot creates
C16_ContactInviteAfterStep1 ==
    [][\A u \in Users : InviteCreatedBy(u, "contact_handler") => Step1Submitted(u)]_vars

Status(pendD, u) == Get(Get(pendD, u, EmptyDict), "status", "none")

\* the blocked-phone status as api.py and the bots write it
BlockedPhoneStatuses == {"blocked_phone", "blocked_phone_india"}

\* C17: once the status of an identity's PendingVerification is the
\* blocked-phone status, no request changes it to step1_passed or
\* phone_verified.
C17_BlockedPhoneTerminal ==
    [][\A u \in Users :
          Status(pending, u) \in BlockedPhoneStatuses
             => Status(pending', u) \notin {"step1_passed", "phone_verified"}]_vars

\* C17 for a step 1 submitted again after the block
C17_NoStep1AfterBlock ==
    [][\A u \in Users :
          Status(pending, u) \in BlockedPhoneStatuses
             => Status(pending', u) # "step1_passed"]_vars

\* C17 for another number submitted after the block
C17_NoPhoneAfterBlock ==
    [][\A u \in Users :
          Status(pending, u) \in BlockedPhoneStatuses
             => Status(pending', u) \notin {"phone_verified", "verified"}]_vars

\* C17 for the invitation: none is created for an identity whose record
\* still holds the number that was blocked
C17_NoInviteAfterBlock ==
    [][\A u \in Users :
          Get(Get(pending, u, EmptyDict), "phone", "") = "blocked_number"
             => extInvites'[u] = extInvites[u]]_vars

\* the addresses the reputation service reports as an anonymizing network or
\* as the blocked region
FlaggedIps == {ip \in VerifyIps : IpReputation(ip) \in {"vpn", "blocked"}}

\* /api/verify/ip looked ip up for u, the lookup answered, and the record of
\* u still holds that check
ReportedFor(u, ip) ==
    LET rec == Get(pending, u, EmptyDict) IN
    /\ Get(rec, "ip_address", "") = ip
    /\ Has(rec, "ip_check_at")
    /\ Get(rec, "ip_check_bypassed", TRUE) = FALSE

\* this step is POST /api/verify/submit for u from ip
SubmitStep(u, ip) ==
    \E validated \in BOOLEAN, formOk \in BOOLEAN, ip_bypassed \in BOOLEAN :
       api_verify_submit(u, ip, validated, formOk, ip_bypassed)

\* this step is POST /trial or POST /api/fallback/verify for u from ip, and
\* the lookup the request makes answers
RecheckedStep(u, ip) ==
    \/ \E formOk \in BOOLEAN : web_trial_post(u, ip, TRUE, formOk)
    \/ \E originOk \in BOOLEAN, formOk \in BOOLEAN :
          api_fallback_verify(u, ip, originOk, TRUE, formOk)

Step1Accepted == last'.res = "step1_passed"

\* C18: a step-1 submission of an identity from an address the reputation
\* lookup reports as VPN/Tor or as the blocked region is not accepted, by
\* /trial POST, /api/verify/submit or /api/fallback/verify.
C18_BlockedRegion ==
    [][\A u \in Users, ip \in FlaggedIps :
          (RecheckedStep(u, ip) \/ (ReportedFor(u, ip) /\ SubmitStep(u, ip)))
             => ~Step1Accepted]_vars

\* C18 for the two endpoints that look the address up themselves
C18_RecheckRejects ==
    [][\A u \in Users, ip \in FlaggedIps : RecheckedStep(u, ip) => ~Step1Accepted]_vars

\* a flagged address was rejected by /trial POST or /api/fallback/verify
C18_RecheckWitness ==
    /\ last.op \in {"web_trial_post", "api_fallback_verify"}
    /\ last.res \in {"vpn", "blocked"}

\* the stored PendingVerification of u is flagged for manual review
Flagged(pendD, u) == Get(Get(pendD, u, EmptyDict), "requires_manual_review", FALSE)

\* this step is POST /trial for u whose lookup failed and whose form was
\* accepted
WebFailOpen(u) ==
    /\ \E ip \in VerifyIps, formOk \in BOOLEAN : web_trial_post(u, ip, FALSE, formOk)
    /\ Step1Accepted

\* this step is GET /api/verify/ip or POST /api/fallback/verify for u whose
\* lookup failed and whose result was stored
ApiFailOpen(u) ==
    \/ /\ \E ip \in VerifyIps, validated \in BOOLEAN : api_verify_ip(u, ip, validated, FALSE)
       /\ last'.res = "failed"
    \/ /\ \E ip \in VerifyIps, originOk \in BOOLEAN, formOk \in BOOLEAN :
             api_fallback_verify(u, ip, originOk, FALSE, formOk)
       /\ Step1Accepted

\* C19: when the IP reputation lookup of a request fails and the request is
\* accepted, the stored PendingVerification of the identity has
\* requires_manual_review = true, for /trial POST, /api/verify/ip and
\* /api/fallback/verify.
C19_FailOpenFlagged ==
    [][\A u \in Users : (WebFailOpen(u) \/ ApiFailOpen(u)) => Flagged(pending', u)]_vars

\* C19 for the two endpoints of api.py
C19_ApiFailOpenFlagged ==
    [][\A u \in Users : ApiFailOpen(u) => Flagged(pending', u)]_vars

\* a failed lookup of api.py left a flagged record
C19_ApiWitness ==
    /\ last.op \in {"api_verify_ip", "api_fallback_verify"}
    /\ last.res \in {"failed", "step1_passed"}
    /\ \E u \in Users : Flagged(pending, u) /\ Get(pending[u], "ip_check_bypassed", FALSE)

----------------------------------------------------------------------------
(* Startup.  Each process reads its configuration from the environment     *)
(* when its module is loaded and then serves: bot.py and slim_bot.py poll, *)
(* api.py and web_app.py run their Flask app.  A process that raises while *)
(* it loads never serves.                                                  *)

Processes == {"bot.py", "slim_bot.py", "api.py", "web_app.py"}

\* values of the variables: BOT_TOKEN missing or set; TRIAL_CHANNEL_ID unset,
\* zero, a channel, a private chat, not a number; API_SECRET missing, short,
\* long enough
BotTokens == {"", GoodEnv.BOT_TOKEN}
ChannelIds == {"unset", "0", "-1001", "1001", "abc"}
ApiSecrets == {"", "short_secret", GoodEnv.API_SECRET}

\* int(s): the number, or ValueError
ParseInt(s) ==
    CASE s = "0" -> [ok |-> TRUE, val |-> 0]
      [] s = "-1001" -> [ok |-> TRUE, val |-> 0 - 1001]
      [] s = "1001" -> [ok |-> TRUE, val |-> 1001]
      [] OTHER -> [ok |-> FALSE, val |-> 0]

\* len(API_SECRET)
SecretLength(s) ==
    CASE s = "" -> 0
      [] s = "short_secret" -> 12
      [] OTHER -> 32

\* _safe_int_env(name, default) of bot.py
_safe_int_env(v, default) ==
    IF v = "unset" THEN default
    ELSE IF ParseInt(v).ok THEN ParseInt(v).val ELSE default

\* int(os.environ.get(name, "0"))
IntEnv(v) == ParseInt(IF v = "unset" THEN "0" ELSE v)

\* module level of bot.py (102-103, 149-156, 199-217)
BotStartup(e) ==
    LET TRIAL_CHANNEL_ID == _safe_int_env(e.TRIAL_CHANNEL_ID, 0) IN
    IF e.BOT_TOKEN = "" THEN "exited"
    ELSE IF TRIAL_CHANNEL_ID = 0 THEN "exited"
    ELSE IF TRIAL_CHANNEL_ID >= 0 THEN "exited"
    ELSE "serving"

\* module level of slim_bot.py (68-69, 102-123)
SlimStartup(e) ==
    LET parsed == IntEnv(e.TRIAL_CHANNEL_ID) IN
    IF ~parsed.ok THEN "exited"
    ELSE IF e.BOT_TOKEN = "" THEN "exited"
    ELSE IF parsed.val = 0 THEN "exited"
    ELSE IF parsed.val >= 0 THEN "exited"
    ELSE "serving"

\* module level of api.py (48-66): only API_SECRET is checked
ApiStartup(e) ==
    IF ~IntEnv(e.TRIAL_CHANNEL_ID).ok THEN "exited"
    ELSE IF e.API_SECRET = "" \/ SecretLength(e.API_SECRET) < 32 THEN "exited"
    ELSE "serving"

\* module level of web_app.py (34-43): a missing BOT_TOKEN is logged
WebStartup(e) == "serving"

Startup(e) ==
    CASE e.process = "bot.py" -> BotStartup(e)
      [] e.process = "slim_bot.py" -> SlimStartup(e)
      [] e.process = "api.py" -> ApiStartup(e)
      [] OTHER -> WebStartup(e)

StartUnchanged ==
    UNCHANGED <<impl, lock, weekday0, limits, now, used, pending, jobs, procs, joining,
                sweep, extInvites, orig>>

startup ==
    /\ env.state = "starting"
    /\ env' = [env EXCEPT !.state = Startup(env)]
    /\ last' = Eff("startup", 0, Startup(env), {}, FALSE, 0, TRUE)
    /\ UNCHANGED <<active, invites>>
    /\ StartUnchanged

\* a request that reads the invitation of u: /api/user/status and
\* /api/verify/phone (api.py 499, 650), the start handlers of the bots
serve_get_valid_invite_link(u) ==
    /\ env.state = "serving"
    /\ env.process # "web_app.py"
    /\ Has(invites, u) /\ Has(invites[u], "invite_expires_at")
    /\ last' = Eff("get_valid_invite_link", u,
                   IF get_valid_invite_link(invites, u, now) # 0 THEN "existing" ELSE "none",
                   {}, FALSE, 0, _verify_invite_signature(invites[u], u))
    /\ UNCHANGED <<env, active, invites>>
    /\ StartUnchanged

\* a request that stores an invitation: /api/trial/invite, which answers only
\* requests with validated initData (api.py 683, 748; validate_init_data
\* returns None without BOT_TOKEN), and contact_handler of the bots
serve_set_invite_info(u) ==
    /\ env.state = "serving"
    /\ env.process # "web_app.py"
    /\ env.process = "api.py" => env.BOT_TOKEN # ""
    /\ invites' = set_invite_info(invites, u,
                     [invite_link |-> 1, invite_created_at |-> now,
                      invite_expires_at |-> now + INVITE_LINK_EXPIRY_HOURS])
    /\ last' = Eff("set_invite_info", u, "signed", {}, FALSE, 0, TRUE)
    /\ UNCHANGED <<env, active>>
    /\ StartUnchanged

\* the join handler of the bots stores the trial of u
serve_set_active_trial(u) ==
    /\ env.state = "serving"
    /\ env.process \in {"bot.py", "slim_bot.py"}
    /\ active' = set_active_trial(active, u, NewTrial(now))
    /\ last' = Eff("set_active_trial", u, "signed", {}, FALSE, 0, TRUE)
    /\ UNCHANGED <<env, invites>>
    /\ StartUnchanged

\* the bots validate the trial of u (reminders, sweep, restart)
serve_validate_trial_data(u) ==
    /\ env.state = "serving"
    /\ env.process \in {"bot.py", "slim_bot.py"}
    /\ Has(active, u)
    /\ last' = Eff("validate_trial_data", u,
                   IF validate_trial_data(active[u], u, now) THEN "valid" ELSE "invalid",
                   {}, FALSE, 0, _verify_trial_signature(active[u], u))
    /\ UNCHANGED <<env, active, invites>>
    /\ StartUnchanged

----------------------------------------------------------------------------
(* GET /api/get-verification: the bot fetches the PendingVerification of   *)
(* an identity from the process that stored it.                            *)

\* check_ip_rate_limit of web_app.py on the limiter state lim
WebIpChecked(lim, ip, t, max_requests, window_minutes) ==
    LET r == check_ip_rate_limit(lim.web_ip, ip, t, max_requests, window_minutes) IN
    [ok |-> r.ok,
     limits |-> [lim EXCEPT
                    !.web_ip = r.tbl,
                    !.allowed.web_ip = Allow(@, ip, t, r.ok),
                    !.call = Called("web_ip", ip, max_requests, window_minutes, t, r.ok)]]

\* the secrets a request can carry: none, a wrong one, the configured one
ProvidedSecrets == {"", "wrong_secret"} \cup ApiSecrets

\* what the endpoint answers with when it reaches get_pending_verification
VerificationData(tg_id) == IF Has(pending, tg_id) THEN "data" ELSE "no_data"

\* api_get_verification of web_app.py (906-934): the secret is compared only
\* when API_SECRET is set
web_get_verification(tg_id, ip, provided) ==
    LET r == WebIpChecked(limits, ip, now, 20, 15) IN
    IF env.API_SECRET # "" /\ provided # env.API_SECRET
    THEN /\ last' = Eff("api_get_verification", tg_id, "unauthorized", {}, FALSE, 0, TRUE)
         /\ UNCHANGED limits
    ELSE /\ limits' = r.limits
         /\ last' = Eff("api_get_verification", tg_id,
                        IF r.ok THEN VerificationData(tg_id) ELSE "rate_limited",
                        {}, FALSE, 0, TRUE)

\* api_get_verification of api.py (1357-1407)
api_get_verification(tg_id, ip, provided) ==
    LET missing == ApiIpChecked(limits, ip, now, 5, 15)
        invalid == ApiIpChecked(limits, ip, now, 3, 15)
    IN
    IF env.API_SECRET = "" \/ SecretLength(env.API_SECRET) < 32
    THEN /\ last' = Eff("api_get_verification", tg_id, "config_error", {}, FALSE, 0, TRUE)
         /\ UNCHANGED limits
    ELSE IF provided = ""
    THEN /\ limits' = missing.limits
         /\ last' = Eff("api_get_verification", tg_id,
                        IF missing.ok THEN "unauthorized" ELSE "rate_limited",
                        {}, FALSE, 0, TRUE)
    ELSE IF provided # env.API_SECRET
    THEN /\ limits' = invalid.limits
         /\ last' = Eff("api_get_verification", tg_id,
                        IF invalid.ok THEN "unauthorized" ELSE "rate_limited",
                        {}, FALSE, 0, TRUE)
    ELSE /\ last' = Eff("api_get_verification", tg_id, VerificationData(tg_id),
                        {}, FALSE, 0, TRUE)
         /\ UNCHANGED limits

\* a request to the endpoint of the process that serves
serve_get_verification(tg_id, ip, provided) ==
    /\ env.state = "serving"
    /\ env.process \in {"web_app.py", "api.py"}
    /\ IF env.process = "web_app.py"
       THEN web_get_verification(tg_id, ip, provided)
       ELSE api_get_verification(tg_id, ip, provided)
    /\ UNCHANGED <<impl, lock, weekday0, env, now, used, active, invites, pending, jobs, procs,
                   joining, sweep, extInvites, orig>>

\* the InviteRecord of u as a process with BOT_TOKEN set stored it
DeployedInvite(u) ==
    LET d == [invite_link |-> 1, invite_created_at |-> 0,
              invite_expires_at |-> INVITE_LINK_EXPIRY_HOURS]
    IN Put(d, "signature",
           Hmac(GoodEnv.BOT_TOKEN, <<u, 1, 0, INVITE_LINK_EXPIRY_HOURS>>))

\* a process starts with some environment next to the stores another,
\* configured process may have written
InitStart ==
    /\ impl = "bot"
    /\ lock = NoHolder
    /\ weekday0 = Monday
    /\ env \in [process : Processes, BOT_TOKEN : BotTokens,
                TRIAL_CHANNEL_ID : ChannelIds, API_SECRET : ApiSecrets,
                state : {"starting"}]
    /\ limits = NoLimits
    /\ now = 0
    /\ used = EmptyDict
    /\ active = EmptyDict
    /\ \E u \in Users : invites \in {EmptyDict, Put(EmptyDict, u, DeployedInvite(u))}
    /\ pending \in {EmptyDict} \cup
                 {set_pending_verification(EmptyDict, u, Step1Passed) : u \in Users}
    /\ jobs = {}
    /\ procs = [p \in Procs |-> IdleProc]
    /\ joining = EmptyDict
    /\ sweep = IdleSweep
    /\ extInvites = [u \in Users |-> 0]
    /\ orig = [trial |-> EmptyDict, invite |-> EmptyDict, trials |-> 0, edits |-> 0]
    /\ last = NoEffect

NextStart ==
    \/ startup
    \/ \E u \in Users : serve_get_valid_invite_link(u)
    \/ \E u \in Users : serve_set_invite_info(u)
    \/ \E u \in Users : serve_set_active_trial(u)
    \/ \E u \in Users : serve_validate_trial_data(u)
    \/ \E tg_id \in Users, provided \in ProvidedSecrets :
          serve_get_verification(tg_id, "clean_ip", provided)

SpecStart == InitStart /\ [][NextStart]_vars

----------------------------------------------------------------------------
(* Claims about startup (SpecStart)                                        *)

\* the channel identifier is set and names a channel
ChannelValid(e) ==
    /\ e.TRIAL_CHANNEL_ID # "unset"
    /\ ParseInt(e.TRIAL_CHANNEL_ID).ok
    /\ ParseInt(e.TRIAL_CHANNEL_ID).val < 0

KeyOps == {"get_valid_invite_link", "set_invite_info", "set_active_trial",
           "validate_trial_data"}

\* C20: no process reaches its serving state when BOT_TOKEN is missing or the
\* channel identifier is unset or invalid, and no record is signed or
\* verified with the fallback key.
C20_ConfigErrorsFatal ==
    /\ env.state = "serving" => (env.BOT_TOKEN # "" /\ ChannelValid(env))
    /\ last.op \in KeyOps => _get_signing_key # FALLBACK_KEY

\* C20, the part about the key
C20_NoFallbackKey == last.op \in KeyOps => _get_signing_key # FALLBACK_KEY

\* C20, the part about BOT_TOKEN
C20_NoServingWithoutToken == env.state = "serving" => env.BOT_TOKEN # ""

\* C20 for the two bots
C20_BotsFailFast ==
    (env.state = "serving" /\ env.process \in {"bot.py", "slim_bot.py"})
       => (env.BOT_TOKEN # "" /\ ChannelValid(env))

\* a bot refused to run with a wrong configuration
C20_BotExited ==
    /\ env.process \in {"bot.py", "slim_bot.py"}
    /\ env.state = "exited"
    /\ env.BOT_TOKEN = "" \/ ~ChannelValid(env)

----------------------------------------------------------------------------
(* Claims about the handoff endpoint (SpecStart)                           *)

\* C21: GET /api/get-verification returns record data only to a request that
\* carries the configured pre-shared secret, whatever the configuration of
\* the process.
C21_HandoffNeedsSecret ==
    [][\A tg_id \in Users, provided \in ProvidedSecrets :
          (serve_get_verification(tg_id, "clean_ip", provided)
           /\ (provided = "" \/ provided # env.API_SECRET))
             => last'.res # "data"]_vars

\* C21 for the endpoint of api.py
C21_ApiHandoffNeedsSecret ==
    [][\A tg_id \in Users, provided \in ProvidedSecrets :
          (env.process = "api.py"
           /\ serve_get_verification(tg_id, "clean_ip", provided)
           /\ (provided = "" \/ provided # env.API_SECRET))
             => last'.res # "data"]_vars

\* the endpoint of api.py handed a record to a request with the secret, and
\* turned a request without it away
C21_ApiHandoffWitness ==
    /\ env.process = "api.py"
    /\ last.op = "api_get_verification"
    /\ last.res = "data"

C21_ApiRefusedWitness ==
    /\ env.process = "api.py"
    /\ last.op = "api_get_verification"
    /\ last.res = "unauthorized"

----------------------------------------------------------------------------
(* Claims about the invite lookup (SpecSign)                               *)

\* this step is an atomic_create_or_get_invite for u that answered with the
\* stored link
ExistingReturned(u) ==
    /\ Has(invites, u)
    /\ \E d \in ExpiryDelays : get_or_create_invite(u, d)
    /\ last'.res = "existing"

\* C22: atomic_create_or_get_invite answers 'existing' only for a stored
\* InviteRecord whose signature verifies, that is only where
\* get_valid_invite_link returns the link.
C22_ExistingOnlyIfSigned ==
    [][\A u \in SignUsers :
          ExistingReturned(u)
             => /\ _verify_invite_signature(invites[u], u)
                /\ get_valid_invite_link(invites, u, now) = invites[u]["invite_link"]]_vars

\* C22 for records nobody altered
C22_ExistingUnedited ==
    [][\A u \in SignUsers :
          (ExistingReturned(u) /\ Has(orig.invite, u) /\ invites[u] = orig.invite[u])
             => get_valid_invite_link(invites, u, now) = invites[u]["invite_link"]]_vars

C22_ExistingUneditedWitness ==
    /\ last.op = "atomic_create_or_get_invite"
    /\ last.res = "existing"
    /\ Has(orig.invite, last.user) /\ Has(invites, last.user)
    /\ invites[last.user] = orig.invite[last.user]

----------------------------------------------------------------------------
(* Claims about the effects of termination (SpecTrial)                     *)

\* this step is the expiry job or the sweep and removes the ActiveTrial of u
TrialOverRemoval(u) ==
    /\ Has(active, u) /\ ~Has(active', u)
    /\ last'.op \in {"trial_end", "sweep", "sweep_ban"}

\* the step issues ban/unban for u, or suspends at the ban of u
ChannelRemoval(u) ==
    \/ last'.ban
    \/ sweep'.pc = "ban" /\ sweep'.cur = u

\* C23: a run of the expiry job or of the sweep that removes an ActiveTrial
\* also removes the identity from the channel.
C23_RemovalBansToo ==
    [][\A u \in Users : TrialOverRemoval(u) => ChannelRemoval(u)]_vars

\* C23 for the expiry job: a run of trial_end that removes the ActiveTrial of
\* an identity issues the ban, also when a UsedTrial record of the identity
\* exists when it runs.
C23_ExpiryJobBans ==
    [][\A u \in Users :
          (TrialOverRemoval(u) /\ last'.op = "trial_end") => ChannelRemoval(u)]_vars

\* C23 for the sweep
C23_SweepBans ==
    [][\A u \in Users :
          (TrialOverRemoval(u) /\ last'.op # "trial_end") => ChannelRemoval(u)]_vars

\* C23 for the expiry job that finds no UsedTrial and the sweep that finds a
\* valid record
C23_RegularRemovalBans ==
    [][\A u \in Users :
          (/\ TrialOverRemoval(u)
           /\ last'.op = "trial_end" => ~has_used_trial(used, u)
           /\ last'.op = "sweep" => validate_trial_data(active[u], u, now))
             => ChannelRemoval(u)]_vars

C23_RegularRemovalWitness ==
    /\ last.op = "trial_end" /\ last.res = "ended" /\ last.ban
    /\ ~Has(active, last.user)

\* the step leaves the UsedTrial of u as it was and sends u nothing
NoTerminationEffect(u) ==
    /\ Has(used', u) = Has(used, u)
    /\ Has(used, u) => used'[u] = used[u]
    /\ last'.msgs = {}

\* this step is a termination trigger that starts for u: the expiry job, the
\* leave handler, or a pass of the sweep
TriggerFor(u) ==
    \/ last'.op \in {"trial_end", "leave"} /\ last'.user = u
    \/ last'.op = "sweep"

\* C24: the expiry job, the leave handler and the sweep, run for an identity
\* that has no ActiveTrial, write no UsedTrial, overwrite none and send no
\* notification.
C24_NoActiveNoEffect ==
    [][\A u \in Users : (~Has(active, u) /\ TriggerFor(u)) => NoTerminationEffect(u)]_vars

\* C24 for the expiry job and the sweep
C24_JobAndSweepNoop ==
    [][\A u \in Users :
          (~Has(active, u) /\ TriggerFor(u) /\ last'.op # "leave")
             => NoTerminationEffect(u)]_vars

\* the expiry job ran for an identity without ActiveTrial
C24_JobNoopWitness == last.op = "trial_end" /\ last.res = "no_active"

\* ---------------------------------------------------------------------
\* Claims about reminders at process start (SpecTrial)
\* ---------------------------------------------------------------------

\* the reminders of rec whose fire time is before t
PastReminders(rec, t) ==
    {r \in ReminderPlan(rec["total_hours"]) : rec["join_time"] + Hours(r[2]) < t}

\* C25: on process start, a reminder of a valid persisted ActiveTrial whose
\* fire time join_time + offset is already past is fired immediately (a job
\* for it is due at once), and a reminder whose fire time is still in the
\* future is scheduled for that fire time
C25_PastRemindersFired ==
    [][restart =>
          \A u \in DOMAIN active' :
             validate_trial_data(active'[u], u, now) =>
                /\ \A r \in PastReminders(active'[u], now) :
                      \E j \in jobs' : j.fn = r[1] /\ j.user = u /\ j.at <= now
                /\ RemainingReminders(u, active'[u], now) \subseteq jobs']_vars

\* on process start a reminder of a valid persisted ActiveTrial whose fire
\* time is already past gets no job at all, and a reminder whose fire time
\* is still in the future is scheduled for that fire time
C25_PastRemindersSkipped ==
    [][restart =>
          \A u \in DOMAIN active' :
             validate_trial_data(active'[u], u, now) =>
                /\ \A r \in PastReminders(active'[u], now) :
                      ~ \E j \in jobs' : j.fn = r[1] /\ j.user = u
                /\ RemainingReminders(u, active'[u], now) \subseteq jobs']_vars

\* a restart found a valid ActiveTrial with its first reminder already past
\* and its last reminder still to come
C25_SkippedWitness ==
    /\ last.op = "restart"
    /\ \E u \in DOMAIN active :
         /\ validate_trial_data(active[u], u, now)
         /\ PastReminders(active[u], now) # {}
         /\ \E j \in jobs : j.user = u /\ j.fn # "trial_end" /\ j.at > now
         /\ ~ \E j \in jobs : j.user = u /\ j.fn = "trial_reminder_3day_1"
         /\ ~ \E j \in jobs : j.user = u /\ j.fn = "trial_reminder_5day_1"

\* ---------------------------------------------------------------------
\* Claims about a failed invite creation (SpecGrant)
\* ---------------------------------------------------------------------

\* the run p of contact_handler learns in this step that its external
\* create-invite call failed
CreateFailedStep(p) ==
    /\ procs[p].op = "contact_handler"
    /\ procs[p].pc = "create"
    /\ procs'[p].res = "create_failed"

\* a contact submission of u handled at hour t would be answered 'created'
RetryCreates(invD, u, t) ==
    atomic_create_or_get_invite(invD, u,
        [invite_created_at |-> t, invite_expires_at |-> t + INVITE_LINK_EXPIRY_HOURS],
        t).action = "created"

\* C26: when the external create-invite call of a contact_handler run fails,
\* no InviteRecord remains for that identity, the failure is reported, and a
\* later contact submission of the identity is again answered with 'created'
C26_CreateFailsClosed ==
    [][\A p \in Procs :
          CreateFailedStep(p) =>
             /\ ~Has(invites', procs[p].u)
             /\ procs'[p].pc = "done"
             /\ RetryCreates(invites', procs[p].u, now)]_vars

\* when the external create-invite call of a contact_handler run fails, the
\* failure is reported and no `creating` placeholder remains for that
\* identity: a record that remains has been finalized by another run
C26_NoPlaceholderLeft ==
    [][\A p \in Procs :
          CreateFailedStep(p) =>
             /\ procs'[p].pc = "done"
             /\ Has(invites', procs[p].u) =>
                   /\ ~Has(invites'[procs[p].u], "creating")
                   /\ Get(invites'[procs[p].u], "invite_link", 0) # 0]_vars

\* a run whose create-invite call failed has ended and the identity has no
\* InviteRecord
C26_CleanedUpWitness ==
    \E p \in Procs :
       /\ procs[p].op = "contact_handler"
       /\ procs[p].res = "create_failed"
       /\ ~Has(invites, procs[p].u)

\* ---------------------------------------------------------------------
\* Claims about rejected step-1 submissions (SpecVerify)
\* ---------------------------------------------------------------------

\* this step is a /trial POST of web_app.py rejected for its form fields
WebBadFormStep ==
    /\ \E tg_id \in Users, ip \in VerifyIps, lookupOk \in BOOLEAN :
          web_trial_post(tg_id, ip, lookupOk, FALSE)
    /\ last'.res = "bad_form"

\* this step is a /api/verify/submit or /api/fallback/verify request of api.py
\* rejected for its form fields
ApiBadFormStep ==
    /\ \/ \E tg_id \in Users, ip \in VerifyIps, validated \in BOOLEAN, ip_bypassed \in BOOLEAN :
             api_verify_submit(tg_id, ip, validated, FALSE, ip_bypassed)
       \/ \E tg_id \in Users, ip \in VerifyIps, originOk \in BOOLEAN, lookupOk \in BOOLEAN :
             api_fallback_verify(tg_id, ip, originOk, lookupOk, FALSE)
    /\ last'.res = "bad_form"

\* C27: a step-1 submission rejected for a missing name or country or for an
\* invalid email leaves the pending-verifications collection exactly as it
\* was before the request, for /trial POST as well as for /api/verify/submit
\* and /api/fallback/verify
C27_InputErrorMutatesNothing ==
    [][(WebBadFormStep \/ ApiBadFormStep) => pending' = pending]_vars

\* a submission to /api/verify/submit or /api/fallback/verify rejected for
\* its form fields leaves the pending-verifications collection as it was
C27_ApiInputErrorMutatesNothing ==
    [][ApiBadFormStep => pending' = pending]_vars

\* a /trial POST rejected for its form fields changes nothing of the
\* identity's pending record but its verification_attempts
C27_WebInputErrorKeepsFields ==
    [][WebBadFormStep =>
          LET u == last'.user IN
          /\ \A v \in Users \ {u} :
                Get(pending', v, EmptyDict) = Get(pending, v, EmptyDict)
          /\ Del(Get(pending', u, EmptyDict), "verification_attempts")
                = Del(Get(pending, u, EmptyDict), "verification_attempts")]_vars

\* an api.py submission was rejected for its form fields while the identity
\* had a pending record
C27_ApiRejectedWitness ==
    /\ last.op \in {"api_verify_submit", "api_fallback_verify"}
    /\ last.res = "bad_form"
    /\ Has(pending, last.user)

\* ---------------------------------------------------------------------
\* Claims about the per-identity gate of /trial POST (SpecRate)
\* ---------------------------------------------------------------------

\* how many /trial POST submissions of tg_id passed check_rate_limit inside
\* the window that ends now
PassedGate(tg_id) ==
    AllowedInWindow(limits.allowed.store, tg_id, now, VerificationLimit[2])

\* C28: of the /trial POST submissions of one identity inside one 60-minute
\* window at most 3 pass the per-identity rate-limit gate, also when earlier
\* submissions of the window were accepted and stored
C28_AtMostThreePass ==
    \A tg_id \in Users : PassedGate(tg_id) <= VerificationLimit[1]

\* a /trial POST submission is rejected by the per-identity gate only when
\* the identity's record holds 3 attempts of the window
C28_RejectedAtThree ==
    [][(last'.op = "web_trial_post" /\ last'.res = "rate_limited") =>
          Len(InWindow(RecordedIn(pending, limits, "store", last'.user), now,
                       VerificationLimit[2])) >= VerificationLimit[1]]_vars

----------------------------------------------------------------------------
(* The record-store lock (storage.py 132).  Every storage function is one  *)
(* `with _lock:` block around its reads and writes of the record files.    *)
(* contact_handler from the phone check on (bot.py 1818-1890) is followed  *)
(* call by call: entering a block, leaving it, and the external calls made *)
(* between the blocks are steps of their own, interleaved as the threads   *)
(* of api.py and web_app.py interleave them.                               *)

\* the storage calls of contact_handler after the phone check
LockedCalls ==
    {"set_pending_verification", "atomic_create_or_get_invite",
     "finalize_invite_creation", "cleanup_failed_invite_creation",
     "clear_pending_verification"}

\* its external calls: the invite creation and the replies to the user
ExternalCalls ==
    {"create_chat_invite_link", "reply_existing", "reply_link", "reply_failed"}

\* what the steps of a storage call leave alone
LockUnchanged ==
    UNCHANGED <<impl, weekday0, env, limits, now, jobs, joining, sweep, last>>

\* a `with _lock:` block that is left without releasing the lock
lock_kept(holder) == holder

\* `with _lock:` releases the lock when its block is left
lock_release(holder) == NoHolder

\* contact_handler has passed the phone check and is about to store the
\* verified status
contact_passed_phone_check(p, u) ==
    /\ procs[p].pc = "idle"
    /\ ~has_used_trial(used, u)
    /\ procs' = [procs EXCEPT ![p] =
           [Begin(p, "contact_handler", u) EXCEPT !.pc = "set_pending_verification"]]
    /\ UNCHANGED <<used, active, invites, pending, extInvites, orig>>
    /\ GrantUnchanged

\* the storage function p calls acquires the lock
with_lock_enter(p) ==
    /\ procs[p].pc \in LockedCalls
    /\ lock = NoHolder
    /\ lock' = p
    /\ UNCHANGED <<procs, used, active, invites, pending, extInvites, orig>>
    /\ LockUnchanged

\* the storage function p is inside of reads and writes its file, leaves its
\* block and returns to contact_handler
with_lock_exit(p) ==
    LET u == procs[p].u
        fn == procs[p].pc
        data == Get(pending, u, EmptyDict)
        invite_data == [invite_created_at |-> procs[p].t,
                        invite_expires_at |-> procs[p].t + INVITE_LINK_EXPIRY_HOURS]
        result == atomic_create_or_get_invite(invites, u, invite_data, procs[p].t)
    IN
    /\ fn \in LockedCalls
    /\ lock = p
    /\ lock' = lock_release(p)
    /\ CASE fn = "set_pending_verification" ->
              /\ pending' = set_pending_verification(pending, u,
                                Put(data, "status", "verified"))
              /\ procs' = [procs EXCEPT ![p].pc = "atomic_create_or_get_invite"]
              /\ UNCHANGED invites
         [] fn = "atomic_create_or_get_invite" ->
              /\ invites' = result.invites
              /\ procs' = [procs EXCEPT ![p] =
                     IF result.action = "existing"
                     THEN [@ EXCEPT !.pc = "reply_existing", !.res = "existing",
                                    !.link = result.link]
                     ELSE [@ EXCEPT !.pc = "create_chat_invite_link", !.res = "created"]]
              /\ UNCHANGED pending
         [] fn = "finalize_invite_creation" ->
              /\ invites' = finalize_invite_creation(invites, u, procs[p].link)
              /\ procs' = [procs EXCEPT ![p].pc = "reply_link"]
              /\ UNCHANGED pending
         [] fn = "cleanup_failed_invite_creation" ->
              /\ invites' = cleanup_failed_invite_creation(invites, u)
              /\ procs' = [procs EXCEPT ![p].pc = "reply_failed"]
              /\ UNCHANGED pending
         [] fn = "clear_pending_verification" ->
              /\ pending' = clear_pending_verification(pending, u)
              /\ procs' = [procs EXCEPT ![p].pc = "done"]
              /\ UNCHANGED invites
    /\ UNCHANGED <<used, active, extInvites, orig>>
    /\ LockUnchanged

\* the external call p awaits returns, or raises
external_call(p, ok) ==
    LET u == procs[p].u
        call == procs[p].pc
    IN
    /\ call \in ExternalCalls
    /\ CASE call = "create_chat_invite_link" /\ ok ->
              /\ extInvites' = [extInvites EXCEPT ![u] = NewLink(u)]
              /\ procs' = [procs EXCEPT ![p] =
                     [@ EXCEPT !.pc = "finalize_invite_creation", !.link = NewLink(u)]]
         [] call = "create_chat_invite_link" /\ ~ok ->
              /\ procs' = [procs EXCEPT ![p] =
                     [@ EXCEPT !.pc = "cleanup_failed_invite_creation",
                               !.res = "create_failed"]]
              /\ UNCHANGED extInvites
         [] call = "reply_link" /\ ok ->
              /\ procs' = [procs EXCEPT ![p] =
                     [@ EXCEPT !.pc = "clear_pending_verification", !.res = "link_sent"]]
              /\ UNCHANGED extInvites
         [] OTHER ->
              /\ procs' = [procs EXCEPT ![p].pc = "done"]
              /\ UNCHANGED extInvites
    /\ UNCHANGED <<used, active, invites, pending, orig>>
    /\ GrantUnchanged

InitLock ==
    /\ impl = "bot"
    /\ lock = NoHolder
    /\ weekday0 = Monday
    /\ env = GoodEnv
    /\ limits = NoLimits
    /\ now = 0
    /\ used = EmptyDict
    /\ active = EmptyDict
    /\ pending \in {EmptyDict} \cup
                   {set_pending_verification(EmptyDict, u, Step1Passed) : u \in Users}
    /\ invites = EmptyDict
    /\ jobs = {}
    /\ procs = [p \in Procs |-> IdleProc]
    /\ joining = EmptyDict
    /\ sweep = IdleSweep
    /\ extInvites = [u \in Users |-> 0]
    /\ orig = [trial |-> EmptyDict, invite |-> EmptyDict, trials |-> 0, edits |-> 0]
    /\ last = NoEffect

NextLock ==
    \/ \E p \in Procs, u \in Users : contact_passed_phone_check(p, u)
    \/ \E p \in Procs : with_lock_enter(p)
    \/ \E p \in Procs : with_lock_exit(p)
    \/ \E p \in Procs, ok \in BOOLEAN : external_call(p, ok)

SpecLock == InitLock /\ [][NextLock]_vars

----------------------------------------------------------------------------
(* Claims about the record-store lock (SpecLock)                           *)

----------------------------------------------------------------------------
(* Re-entering the funnel: /start and the start_trial callback of bot.py,  *)
(* GET and POST /trial of web_app.py, for an identity that may already     *)
(* hold a pending-verification record.                                     *)

\* GET /trial?tg_id=... (web_app.py 973-1034)
web_trial_get(tg_id, ip, lookupOk) ==
    LET r1 == check_ip_rate_limit(limits.web_ip, ip, now, 5, 60)
        verdict == Lookup(ip, lookupOk)
        existing_data == Get(pending, tg_id, EmptyDict)
        result == IF ~r1.ok THEN "ip_limited"
                  ELSE IF has_used_trial(used, tg_id) THEN "already_used"
                  ELSE IF Get(existing_data, "step1_ok", FALSE) THEN "already_passed"
                  ELSE IF verdict \in {"vpn", "blocked"} THEN verdict
                  ELSE "show_form"
    IN
    /\ limits' = [limits EXCEPT
                     !.web_ip = r1.tbl,
                     !.allowed.web_ip = Allow(@, ip, now, r1.ok),
                     !.call = Called("web_ip", ip, 5, 60, now, r1.ok)]
    /\ last' = Eff("web_trial_get", tg_id, result, {}, FALSE, 0, TRUE)
    /\ UNCHANGED <<now, pending>>
    /\ RateUnchanged

InitEntry ==
    /\ impl = "bot"
    /\ lock = NoHolder
    /\ weekday0 = Monday
    /\ env = GoodEnv
    /\ limits = NoLimits
    /\ now = 0
    /\ used = EmptyDict
    /\ active = EmptyDict
    /\ invites = EmptyDict
    /\ pending \in {EmptyDict} \cup
                   {set_pending_verification(EmptyDict, u, rec) :
                       u \in Users, rec \in {Step1Passed, PhoneVerified}}
    /\ jobs = {}
    /\ procs = [p \in Procs |-> IdleProc]
    /\ joining = EmptyDict
    /\ sweep = IdleSweep
    /\ extInvites = [u \in Users |-> 0]
    /\ orig = [trial |-> EmptyDict, invite |-> EmptyDict, trials |-> 0, edits |-> 0]
    /\ last = NoEffect

NextEntry ==
    \/ \E u \in Users : start(u)
    \/ \E p \in Procs, u \in Users : start_trial_callback(p, u)
    \/ \E tg_id \in Users, lookupOk \in BOOLEAN :
          web_trial_get(tg_id, "clean_ip", lookupOk)
    \/ \E tg_id \in Users, lookupOk \in BOOLEAN, formOk \in BOOLEAN :
          web_trial_post(tg_id, "clean_ip", lookupOk, formOk)

SpecEntry == InitEntry /\ [][NextEntry]_vars

----------------------------------------------------------------------------
(* Claims about re-entering the funnel (SpecEntry)                         *)

\* u holds a PendingVerification that passed step 1 and awaits the phone
\* step, and nothing else stands in the way of its verification: no UsedTrial,
\* no ActiveTrial, no valid invite
Resumable(u) ==
    /\ Has(pending, u)
    /\ Get(pending[u], "step1_ok", FALSE)
    /\ Get(pending[u], "status", "none") # "phone_verified"
    /\ ~Has(used, u)
    /\ ~Has(active, u)
    /\ get_valid_invite_link(invites, u, now) = 0

\* this step is /start, the start_trial callback or GET /trial of u, let
\* through by the address limiter, and its answer
BotOrGetEntry(u) ==
    \/ start(u)
    \/ \E p \in Procs : start_trial_callback(p, u)
    \/ /\ \E lookupOk \in BOOLEAN : web_trial_get(u, "clean_ip", lookupOk)
       /\ last'.res # "ip_limited"

\* this step is a POST /trial of u let through by the address limiter and
\* the per-identity limiter
PostEntry(u) ==
    /\ \E lookupOk \in BOOLEAN, formOk \in BOOLEAN :
          web_trial_post(u, "clean_ip", lookupOk, formOk)
    /\ last'.res \notin {"ip_limited", "rate_limited"}

\* the step answered u with the continue-verification step
Continued(u) ==
    \/ start(u) /\ last'.res = "continue_verification"
    \/ \E p \in Procs : start_trial_callback(p, u) /\ procs'[p].res = "continue_verification"
    \/ last'.op = "web_trial_get" /\ last'.res = "already_passed"
    \/ last'.op = "web_trial_post" /\ last'.res \in {"already_passed", "continue_verification"}

\* C30: when an identity that holds a PendingVerification with step1_ok
\* re-invokes the entry step of the funnel (/start, the start_trial callback,
\* GET or POST /trial), it is led to the continue-verification step and its
\* PendingVerification record is left unchanged, never replaced by a fresh one
C30_ReentryResumes ==
    [][\A u \in Users :
          (Resumable(u) /\ (BotOrGetEntry(u) \/ PostEntry(u))) =>
             /\ Continued(u)
             /\ pending'[u] = pending[u]]_vars

\* a POST /trial of an identity that holds a PendingVerification with
\* step1_ok changes nothing of the record but its verification_attempts
C30_PostKeepsFields ==
    [][\A u \in Users :
          (Resumable(u) /\ PostEntry(u)) =>
             Del(pending'[u], "verification_attempts")
                = Del(pending[u], "verification_attempts")]_vars

\* the same for /start, the start_trial callback and GET /trial alone
C30_BotAndGetResume ==
    [][\A u \in Users :
          (Resumable(u) /\ BotOrGetEntry(u)) =>
             /\ Continued(u)
             /\ pending'[u] = pending[u]]_vars

\* a GET /trial was answered with the continue-verification step while the
\* identity held its step-1 record
C30_GetResumedWitness ==
    /\ last.op = "web_trial_get"
    /\ last.res = "already_passed"
    /\ Has(pending, last.user)
    /\ Get(pending[last.user], "step1_ok", FALSE)

----------------------------------------------------------------------------
(* The expiry of pending verifications: the entry paths that write a       *)
(* record (web_app.py /trial, api.py /api/verify/ip, /api/verify/submit,   *)
(* /api/fallback/verify), the clock, and the hourly sweep of the deployed  *)
(* bot process.                                                            *)

InitExpire ==
    /\ impl \in {"bot", "slim"}
    /\ lock = NoHolder
    /\ weekday0 = Monday
    /\ env = GoodEnv
    /\ limits = NoLimits
    /\ now = 0
    /\ used = EmptyDict
    /\ active = EmptyDict
    /\ invites = EmptyDict
    /\ pending = EmptyDict
    /\ jobs = {}
    /\ procs = [p \in Procs |-> IdleProc]
    /\ joining = EmptyDict
    /\ sweep = IdleSweep
    /\ extInvites = [u \in Users |-> 0]
    /\ orig = [trial |-> EmptyDict, invite |-> EmptyDict, trials |-> 0, edits |-> 0]
    /\ last = NoEffect

NextExpire ==
    \/ \E tg_id \in Users, formOk \in BOOLEAN :
          RequestsSeen < MaxRequests /\ web_trial_post(tg_id, "clean_ip", TRUE, formOk)
    \/ \E tg_id \in Users, lookupOk \in BOOLEAN :
          RequestsSeen < MaxRequests /\ api_verify_ip(tg_id, "clean_ip", TRUE, lookupOk)
    \/ \E tg_id \in Users, formOk \in BOOLEAN :
          RequestsSeen < MaxRequests
          /\ api_verify_submit(tg_id, "clean_ip", TRUE, formOk, FALSE)
    \/ \E tg_id \in Users, formOk \in BOOLEAN :
          RequestsSeen < MaxRequests
          /\ api_fallback_verify(tg_id, "clean_ip", TRUE, TRUE, formOk)
    \/ sweep_start
    \/ TickDay

\* the sweep is a repeating job of the job queue: it keeps running
SpecExpire ==
    /\ InitExpire
    /\ [][NextExpire]_vars
    /\ WF_vars(sweep_start)

----------------------------------------------------------------------------
(* Claims about the expiry of pending verifications (SpecExpire)           *)

\* the times written into a pending record
RecordTimes(info) ==
    {info[f] : f \in {"verified_at", "ip_check_at", "created_at"} \cap DOMAIN info}
    \cup {info["verification_attempts"][i] :
             i \in DOMAIN Get(info, "verification_attempts", << >>)}

\* u holds a pending record and everything in it was written more than 24
\* hours ago
StalePending(u) ==
    /\ Has(pending, u)
    /\ \A ts \in RecordTimes(pending[u]) :
          now - ts > PENDING_VERIFICATION_EXPIRY_HOURS

\* C31: every PendingVerification record older than 24 hours is eventually
\* deleted by the sweep, whichever entry path created it and whichever bot
\* process runs the sweep
C31_StalePendingDeleted ==
    \A u \in Users : StalePending(u) ~> ~StalePending(u)

\* the sweep of bot.py eventually deletes a record older than 24 hours that
\* carries verified_at or ip_check_at
C31_BotDeletesStamped ==
    \A u \in Users :
       (/\ impl = "bot"
        /\ StalePending(u)
        /\ {"verified_at", "ip_check_at"} \cap DOMAIN pending[u] # {})
          ~> ~StalePending(u)

\* the sweep of bot.py ran over a record older than 24 hours and deleted it
C31_BotDeletedWitness ==
    /\ impl = "bot"
    /\ last.op = "sweep"
    /\ now > PENDING_VERIFICATION_EXPIRY_HOURS
    /\ pending = EmptyDict
    /\ limits.api_tg # EmptyDict

\* ---------------------------------------------------------------------
\* Claims about leave events caused by the bot (SpecTrial)
\* ---------------------------------------------------------------------

\* the step leaves the records of the trials alone and notifies nobody
NoLeaveEffect ==
    /\ used' = used
    /\ active' = active
    /\ last'.msgs = {}

\* C32: a leave event whose acting identity is the bot itself never has the
\* effects of a voluntary leave: it writes no UsedTrial record, clears no
\* ActiveTrial and sends no leave notification
C32_BotLeaveIgnored ==
    [][\A u \in Users, getMeOk \in BOOLEAN :
          leave(u, "bot", getMeOk) => NoLeaveEffect]_vars

\* a leave event whose acting identity is the bot has no effect when get_me
\* answers
C32_BotLeaveIgnoredWhenKnown ==
    [][\A u \in Users : leave(u, "bot", TRUE) => NoLeaveEffect]_vars

\* a leave caused by the bot was ignored while the identity held a UsedTrial
C32_IgnoredWitness ==
    /\ last.op = "leave"
    /\ last.res = "by_bot"
    /\ Has(used, last.user)

\* ---------------------------------------------------------------------
\* Claims about re-entry after the cooldown (SpecTrial)
\* ---------------------------------------------------------------------

\* the UsedTrial of u ended at least TRIAL_COOLDOWN_DAYS ago and u holds no
\* ActiveTrial
CooledDown(u) ==
    /\ has_used_trial(used, u)
    /\ ~Has(active, u)
    /\ BotUsedEnd(used[u]) # EMPTY_STR
    /\ Parses(BotUsedEnd(used[u]))
    /\ now - BotUsedEnd(used[u]) >= TRIAL_COOLDOWN_DAYS * DayHours

\* C33: in bot.py and in slim_bot.py a join event of an identity whose
\* UsedTrial end (trial_ended_at or left_early_at) is at least
\* TRIAL_COOLDOWN_DAYS old is not rejected as already used: a new trial is
\* activated for the identity
C33_CooldownReentry ==
    [][\A u \in Users, sendOk \in BOOLEAN :
          (CooledDown(u) /\ join(u, sendOk)) =>
             /\ last'.res = "activated"
             /\ Has(active', u)]_vars

\* the same for bot.py alone
C33_BotCooldownReentry ==
    [][\A u \in Users, sendOk \in BOOLEAN :
          (impl = "bot" /\ CooledDown(u) /\ join(u, sendOk)) =>
             /\ last'.res = "activated"
             /\ Has(active', u)]_vars

\* bot.py activated a new trial for an identity whose UsedTrial is older
\* than the cooldown
C33_BotReentryWitness ==
    /\ impl = "bot"
    /\ last.op = "join"
    /\ last.res = "activated"
    /\ has_used_trial(used, last.user)
    /\ Has(active, last.user)
    /\ now - BotUsedEnd(used[last.user]) >= TRIAL_COOLDOWN_DAYS * DayHours

----------------------------------------------------------------------------
(* The funnel of a first-time identity with bot.py deployed: the           *)
(* start_trial callback that reserves, the /trial form of web_app.py,      *)
(* contact_handler, and the join handler.                                  *)

InitFunnel ==
    /\ impl = "bot"
    /\ lock = NoHolder
    /\ weekday0 = Monday
    /\ env = GoodEnv
    /\ limits = NoLimits
    /\ now = 0
    /\ used = EmptyDict
    /\ active = EmptyDict
    /\ invites = EmptyDict
    /\ pending = EmptyDict
    /\ jobs = {}
    /\ procs = [p \in Procs |-> IdleProc]
    /\ joining = EmptyDict
    /\ sweep = IdleSweep
    /\ extInvites = [u \in Users |-> 0]
    /\ orig = [trial |-> EmptyDict, invite |-> EmptyDict, trials |-> 0, edits |-> 0]
    /\ last = NoEffect

NextFunnel ==
    \/ \E p \in Procs, u \in Users : start_trial_callback(p, u)
    \/ \E tg_id \in Users, formOk \in BOOLEAN :
          web_trial_post(tg_id, "clean_ip", TRUE, formOk)
    \/ \E p \in Procs, u \in Users, blocked \in BOOLEAN :
          bot_contact_handler(p, u, "own", blocked)
    \/ \E p \in Procs, outcome \in {"ok", "failed"} : contact_create(p, outcome)
    \/ \E p \in Procs : contact_finish(p)
    \/ \E u \in Users, sendOk \in BOOLEAN : join(u, sendOk)
    \/ \E u \in Users, sendOk \in BOOLEAN : join_welcome(u, sendOk)

SpecFunnel == InitFunnel /\ [][NextFunnel]_vars

----------------------------------------------------------------------------
(* Claims about the reservation (SpecFunnel)                               *)

\* the used-trials slot of u holds the marker start_trial_callback wrote
OwnReservation(u) ==
    /\ Has(used, u)
    /\ Get(used[u], "status", "none") = "reserved"

\* C34: a reservation does not by itself consume the trial: the /trial web
\* step, contact_handler and the join handler do not reject an identity as
\* already used because of its own 'reserved' marker, so that after the
\* reservation the identity can still come to hold an ActiveTrial
C34_ReservationNotConsuming ==
    [][\A u \in Users :
          OwnReservation(u) =>
             /\ \A p \in Procs, blocked \in BOOLEAN :
                   bot_contact_handler(p, u, "own", blocked)
                      => procs'[p].res # "already_used"
             /\ \A formOk \in BOOLEAN :
                   web_trial_post(u, "clean_ip", TRUE, formOk)
                      => last'.res # "already_used"
             /\ \A sendOk \in BOOLEAN :
                   join(u, sendOk) => last'.res # "rejected"]_vars

\* once an identity holds its 'reserved' marker it never holds an
\* ActiveTrial
C34_ReservedNeverActive ==
    \A u \in Users : [](OwnReservation(u) => [](~Has(active, u)))

\* without the marker the join handler does activate a trial
C34_UnreservedActiveWitness ==
    \E u \in Users : Has(active, u) /\ ~Has(used, u)

\* ---------------------------------------------------------------------
\* Claims about the removal of an ActiveTrial (SpecTrial)
\* ---------------------------------------------------------------------

\* the step removes the ActiveTrial of u from the store
ActiveRemoved(u) == Has(active, u) /\ ~Has(active', u)

\* C35: whenever the ActiveTrial of an identity is removed from the store
\* (by the expiry job, the leave handler, the sweep, the restoration at
\* restart or the join handler), a UsedTrial record of that identity exists
\* afterwards
C35_RemovedMeansUsed ==
    [][\A u \in Users : ActiveRemoved(u) => Has(used', u)]_vars

\* the same for the removal of an ActiveTrial that passes validate_trial_data
C35_ValidRemovedMeansUsed ==
    [][\A u \in Users :
          (ActiveRemoved(u) /\ validate_trial_data(active[u], u, now))
             => Has(used', u)]_vars

\* the expiry job removed a valid ActiveTrial and wrote the UsedTrial
C35_ValidRemovedWitness ==
    /\ last.op = "trial_end"
    /\ last.res = "ended"
    /\ ~Has(active, last.user)
    /\ Has(used, last.user)
    /\ Get(used[last.user], "ended_by", "none") = "scheduled_job"

\* ---------------------------------------------------------------------
\* Claims about who is given a trial (SpecFunnel)
\* ---------------------------------------------------------------------

\* u holds a finalized InviteRecord: a link was issued to it
HoldsFinalizedInvite(u) ==
    /\ Has(invites, u)
    /\ Get(invites[u], "invite_link", 0) # 0
    /\ ~Has(invites[u], "creating")

\* C36: an ActiveTrial is created only for an identity that completed the
\* funnel and was issued an invitation: a join event of an identity without
\* a finalized InviteRecord creates no ActiveTrial and schedules no jobs
C36_TrialOnlyWithInvite ==
    [][\A u \in Users :
          ~HoldsFinalizedInvite(u) =>
             /\ ~(~Has(active, u) /\ Has(active', u))
             /\ {j \in jobs' : j.user = u} \subseteq jobs]_vars

\* a join event of an identity that holds a finalized InviteRecord and no
\* UsedTrial activates a trial
C36_InvitedJoinActivates ==
    [][\A u \in Users, sendOk \in BOOLEAN :
          (HoldsFinalizedInvite(u) /\ ~Has(used, u) /\ ~Has(active, u) /\ join(u, sendOk))
             => Has(active', u)]_vars

\* an identity that was issued a link joined and was given a trial
C36_InvitedJoinWitness ==
    \E u \in Users :
       /\ HoldsFinalizedInvite(u)
       /\ Has(active, u)
       /\ last.op = "join"
       /\ last.res = "activated"

\* ---------------------------------------------------------------------
\* Claims about delivered invitation links (SpecGrant)
\* ---------------------------------------------------------------------

\* the run p of contact_handler created a link and sent it, and the link
\* has not expired yet
Delivered(p) ==
    /\ procs[p].op = "contact_handler"
    /\ procs[p].res = "link_sent"
    /\ now < procs[p].t + INVITE_LINK_EXPIRY_HOURS

\* the store holds a finalized, signed InviteRecord with the link of p
Recorded37(p) ==
    /\ Has(invites, procs[p].u)
    /\ ~Has(invites[procs[p].u], "creating")
    /\ get_valid_invite_link(invites, procs[p].u, now) = procs[p].link

\* C37: every invitation link that contact_handler delivered is recorded:
\* until it expires the store holds a finalized, signed InviteRecord with
\* that link and get_valid_invite_link returns it, under every interleaving
\* with another contact_handler run for the same identity
C37_DeliveredLinkRecorded ==
    \A p \in Procs : Delivered(p) => Recorded37(p)

\* the link of a run is recorded when no other run of contact_handler or of
\* /api/trial/invite handled the same identity
C37_SoleRunRecorded ==
    \A p \in Procs :
       (/\ Delivered(p)
        /\ \A q \in Procs \ {p} :
              ~(/\ procs[q].op \in {"contact_handler", "api_trial_invite"}
                /\ procs[q].u = procs[p].u))
          => Recorded37(p)

\* a run delivered its link, recorded, and went on to its end
C37_SoleRunWitness ==
    \E p \in Procs :
       /\ Delivered(p)
       /\ Recorded37(p)
       /\ procs[p].pc = "done"

(***************************************************************************)
(* The verification API served by concurrent request threads.  Flask's     *)
(* app.run serves each request on its own thread, and every endpoint       *)
(* reads the pending record with get_pending_verification and writes it    *)
(* back with set_pending_verification: two separate acquisitions of the    *)
(* storage lock, between which another request thread may run.  Each       *)
(* request is therefore two steps here: the read (the decorators, the      *)
(* validation and the update of the local copy) and the write.  The local  *)
(* copy is the field "existing" of the thread's record.                    *)
(***************************************************************************)
Step1Unchanged ==
    UNCHANGED <<impl, lock, weekday0, env, now, used, active, invites, jobs, joining,
                sweep, extInvites, orig>>

Reading(p, op, tg_id, existing) ==
    [procs EXCEPT ![p] = [op |-> op, pc |-> "set_pending_verification", u |-> tg_id,
                          res |-> "none", link |-> 0, t |-> now,
                          existing |-> existing]]

Refused(p, op, tg_id, res) ==
    [procs EXCEPT ![p] = [IdleProc EXCEPT !.op = op, !.pc = "done", !.u = tg_id,
                                          !.res = res]]

api_verify_ip_read(p, tg_id, ip, lookupOk) ==
    LET auth == require_telegram_auth(limits, tg_id, ip, TRUE, now)
        r == ApiIpChecked(auth.limits, ip, now, 5, 60)
        verdict == Lookup(ip, lookupOk)
        api_failed == verdict = "failed"
        existing == Update(Get(pending, tg_id, EmptyDict),
                           [ip_address |-> ip, ip_check_at |-> now,
                            ip_check_bypassed |-> api_failed,
                            ip_country_code |-> CountryCode(verdict)])
        stored == IF api_failed
                  THEN Update(existing, [requires_manual_review |-> TRUE,
                                         ip_check_reason |-> "api_quota_or_failure"])
                  ELSE existing
    IN
    /\ procs[p].pc = "idle"
    /\ RequestsSeen < MaxRequests
    /\ IF ~auth.ok
       THEN /\ limits' = auth.limits
            /\ procs' = Refused(p, "api_verify_ip", tg_id, "rate_limited")
       ELSE IF ~r.ok
       THEN /\ limits' = r.limits
            /\ procs' = Refused(p, "api_verify_ip", tg_id, "ip_limited")
       ELSE /\ limits' = r.limits
            /\ procs' = Reading(p, "api_verify_ip", tg_id, stored)
    /\ UNCHANGED <<pending, last>>
    /\ Step1Unchanged

api_verify_submit_read(p, tg_id, ip, formOk) ==
    LET auth == require_telegram_auth(limits, tg_id, ip, TRUE, now)
        existing == Update(Get(pending, tg_id, EmptyDict),
                           [name |-> "name", country |-> "country",
                            step1_ok |-> TRUE, status |-> "step1_passed",
                            verified_at |-> now])
    IN
    /\ procs[p].pc = "idle"
    /\ RequestsSeen < MaxRequests
    /\ limits' = auth.limits
    /\ procs' = IF ~auth.ok
                THEN Refused(p, "api_verify_submit", tg_id, "rate_limited")
                ELSE IF ~formOk
                THEN Refused(p, "api_verify_submit", tg_id, "bad_form")
                ELSE Reading(p, "api_verify_submit", tg_id, existing)
    /\ UNCHANGED <<pending, last>>
    /\ Step1Unchanged

api_verify_phone_read(p, tg_id, ip, phone) ==
    LET auth == require_telegram_auth(limits, tg_id, ip, TRUE, now)
        existing == Get(pending, tg_id, EmptyDict)
        existing_link == get_valid_invite_link(invites, tg_id, now)
    IN
    /\ procs[p].pc = "idle"
    /\ RequestsSeen < MaxRequests
    /\ limits' = auth.limits
    /\ procs' = IF ~auth.ok
                THEN Refused(p, "api_verify_phone", tg_id, "rate_limited")
                ELSE IF phone = ""
                THEN Refused(p, "api_verify_phone", tg_id, "no_phone")
                ELSE IF phone = "blocked_number"
                THEN Reading(p, "api_verify_phone", tg_id,
                             Update(existing, [status |-> "blocked_phone",
                                               phone |-> phone]))
                ELSE IF existing_link # 0
                THEN Refused(p, "api_verify_phone", tg_id, "existing")
                ELSE Reading(p, "api_verify_phone", tg_id,
                             Update(existing, [phone |-> phone,
                                               phone_verified_at |-> now,
                                               status |-> "phone_verified"]))
    /\ UNCHANGED <<pending, last>>
    /\ Step1Unchanged

\* The second lock acquisition: the local copy replaces the stored record,
\* and the request returns.
pending_write(p) ==
    /\ procs[p].pc = "set_pending_verification"
    /\ pending' = set_pending_verification(pending, procs[p].u, procs[p].existing)
    /\ procs' = [procs EXCEPT ![p].pc = "done",
                              ![p].res = Get(procs[p].existing, "status", "none")]
    /\ last' = Eff(procs[p].op, procs[p].u, "written", {}, FALSE, 0, TRUE)
    /\ UNCHANGED limits
    /\ Step1Unchanged

\* The response has been sent; the thread serves the next request.
request_done(p) ==
    /\ procs[p].pc = "done"
    /\ procs' = [procs EXCEPT ![p] = IdleProc]
    /\ UNCHANGED <<limits, pending, last>>
    /\ Step1Unchanged

InitStep1 ==
    InitRate

NextStep1 ==
    \/ \E p \in Procs, u \in Users, lookupOk \in BOOLEAN :
          api_verify_ip_read(p, u, "clean_ip", lookupOk)
    \/ \E p \in Procs, u \in Users, formOk \in BOOLEAN :
          api_verify_submit_read(p, u, "clean_ip", formOk)
    \/ \E p \in Procs, u \in Users, phone \in Phones :
          api_verify_phone_read(p, u, "clean_ip", phone)
    \/ \E p \in Procs : pending_write(p)
    \/ \E p \in Procs : request_done(p)

SpecStep1 == InitStep1 /\ [][NextStep1]_vars

Step1Stored(u) ==
    /\ Has(pending, u)
    /\ Get(pending[u], "step1_ok", FALSE)

SubmitReturned(u) ==
    \E p \in Procs :
       /\ procs[p].op = "api_verify_submit"
       /\ procs[p].pc = "done"
       /\ procs[p].u = u
       /\ procs[p].res = "step1_passed"

\* C38: once /api/verify/submit has returned success for an identity, the
\* stored PendingVerification keeps step1_ok = TRUE for as long as the record
\* exists, whatever concurrent /api/verify/ip or /api/verify/phone request
\* for that identity is in flight.
C38_Step1NeverLost ==
    [][\A u \in Users :
          (SubmitReturned(u) /\ Step1Stored(u) /\ Has(pending', u))
             => Step1Stored(u)']_vars

\* What the code does keep: a request that read the record after step 1 was
\* stored writes step1_ok back.
C38_LaterReaderKeepsStep1 ==
    [][\A p \in Procs :
          (pending_write(p) /\ Get(procs[p].existing, "step1_ok", FALSE))
             => Step1Stored(procs[p].u)']_vars

\* A request other than the submission wrote the record back with step 1.
C38_LaterReaderWitness ==
    /\ last.op \in {"api_verify_ip", "api_verify_phone"}
    /\ last.res = "written"
    /\ Step1Stored(last.user)

(***************************************************************************)
(* The /test_leave command of bot.py.  The handler is registered with the  *)
(* commands every chat member may send (bot.py 2609, before the "Admin     *)
(* commands" block), and its body never calls is_admin.  The sender is     *)
(* the parameter actor; arg is the command's first argument: EMPTY_STR     *)
(* when there is none, UNPARSEABLE when int() rejects it, an identity      *)
(* otherwise.                                                              *)
(***************************************************************************)
ADMIN_TG_IDS == {9}

Actors == {8, 9}

is_admin(user_id) == user_id \in ADMIN_TG_IDS

test_leave_command(actor, arg, sendOk) ==
    /\ IF arg = EMPTY_STR
       THEN /\ last' = Eff("test_leave", 0, "usage", {"usage"}, FALSE, 0, TRUE)
            /\ UNCHANGED <<used, active>>
       ELSE IF arg = UNPARSEABLE
       THEN /\ last' = Eff("test_leave", 0, "invalid_id", {"invalid_id"}, FALSE, 0, TRUE)
            /\ UNCHANGED <<used, active>>
       ELSE IF ~Has(active, arg)
       THEN /\ last' = Eff("test_leave", arg, "no_active_trial", {"no_active_trial"},
                           FALSE, 0, TRUE)
            /\ UNCHANGED <<used, active>>
       ELSE /\ used' = mark_trial_used(used, arg,
                          [left_early_at |-> now, reason |-> "test_leave_command",
                           join_time |-> Get(active[arg], "join_time", EMPTY_STR),
                           total_hours |-> Get(active[arg], "total_hours", EMPTY_STR)])
            /\ active' = clear_active_trial(active, arg)
            /\ last' = Eff("test_leave", arg, "simulated_leave",
                           IF sendOk THEN {"simulated", "test_ended", "sent"}
                                     ELSE {"simulated", "could_not_message"},
                           FALSE, 0, TRUE)
    /\ UNCHANGED <<now, jobs, joining, sweep>>
    /\ TrackOrig(0)
    /\ TrialUnchanged

InitAdmin ==
    /\ InitTrial
    /\ impl = "bot"

NextAdmin ==
    \/ \E u \in Users, sendOk \in BOOLEAN : join(u, sendOk)
    \/ \E u \in Users, sendOk \in BOOLEAN : join_welcome(u, sendOk)
    \/ \E u \in Users, actor \in {"user", "bot"}, getMeOk \in BOOLEAN : leave(u, actor, getMeOk)
    \/ \E j \in jobs : run_job(j)
    \/ \E actor \in Actors, arg \in Users \cup {EMPTY_STR, UNPARSEABLE}, sendOk \in BOOLEAN :
          test_leave_command(actor, arg, sendOk)
    \/ TickDay

SpecAdmin == InitAdmin /\ [][NextAdmin]_vars

\* C39: a /test_leave <user_id> command sent by an identity that is not in
\* ADMIN_TG_IDS leaves the ActiveTrial and UsedTrial records unchanged.
C39_OnlyAdminEndsTrial ==
    [][\A actor \in Actors, arg \in Users \cup {EMPTY_STR, UNPARSEABLE}, sendOk \in BOOLEAN :
          (~is_admin(actor) /\ test_leave_command(actor, arg, sendOk))
             => UNCHANGED <<used, active>>]_vars

\* What the command does guarantee to every sender: without an ActiveTrial
\* of the target it changes neither store.
C39_NoTrialNothingEnded ==
    [][\A actor \in Actors, arg \in Users \cup {EMPTY_STR, UNPARSEABLE}, sendOk \in BOOLEAN :
          (test_leave_command(actor, arg, sendOk) /\ ~(arg \in Users /\ Has(active, arg)))
             => UNCHANGED <<used, active>>]_vars

\* The command was sent for a target that had no ActiveTrial.
C39_NoTrialWitness ==
    /\ last.op = "test_leave"
    /\ last.res = "no_active_trial"

(***************************************************************************)
(* Restart restoration under a configured expiry offset.  The offsets of   *)
(* the scheduled jobs, TRIAL_END_3DAY_MINUTES and TRIAL_END_5DAY_MINUTES,  *)
(* are read from the environment (bot.py 173, 176) independently of the    *)
(* trial lengths TRIAL_HOURS_3_DAY and TRIAL_HOURS_5_DAY (bot.py 163,      *)
(* 164), from which trial_end_at is computed.  Here the environment        *)
(* carries the two offsets; the trial lengths keep their defaults.         *)
(***************************************************************************)
EndOffsets3Day == {2880, TRIAL_END_3DAY_MINUTES, 5760}

EndOffsets5Day == {5760, TRIAL_END_5DAY_MINUTES, 8640}

ConfiguredEnv(end3, end5) ==
    [process |-> GoodEnv.process, BOT_TOKEN |-> GoodEnv.BOT_TOKEN,
     TRIAL_CHANNEL_ID |-> GoodEnv.TRIAL_CHANNEL_ID, API_SECRET |-> GoodEnv.API_SECRET,
     state |-> GoodEnv.state,
     TRIAL_END_3DAY_MINUTES |-> end3, TRIAL_END_5DAY_MINUTES |-> end5]

\* the jobs the join handler schedules, with the configured expiry offsets
ConfiguredJobs(e, u, trial_days, t) ==
    IF trial_days = 3
    THEN {[fn |-> "trial_reminder_3day_1", user |-> u, at |-> t + Hours(REMINDER_1_MINUTES)],
          [fn |-> "trial_reminder_3day_2", user |-> u, at |-> t + Hours(REMINDER_2_MINUTES)],
          [fn |-> "trial_end", user |-> u, at |-> t + Hours(e.TRIAL_END_3DAY_MINUTES)]}
    ELSE {[fn |-> "trial_reminder_5day_1", user |-> u, at |-> t + Hours(REMINDER_1_MINUTES)],
          [fn |-> "trial_reminder_5day_3", user |-> u, at |-> t + Hours(REMINDER_3_MINUTES)],
          [fn |-> "trial_reminder_5day_4", user |-> u, at |-> t + Hours(REMINDER_4_MINUTES)],
          [fn |-> "trial_end", user |-> u, at |-> t + Hours(e.TRIAL_END_5DAY_MINUTES)]}

\* the restoration loop: every job whose time is still ahead, and an
\* immediate trial_end when end_dt has passed
ConfiguredRestoredJobs(e, u, rec, end_dt, t) ==
    {j \in ConfiguredJobs(e, u, IF rec["total_hours"] = TRIAL_HOURS_5_DAY THEN 5 ELSE 3,
                          rec["join_time"]) : j.at > t}
    \cup (IF end_dt <= t
          THEN {[fn |-> "trial_end", user |-> u, at |-> t]}
          ELSE {})

ConfiguredBotRestore(e, u, rec, t) ==
    IF ~validate_trial_data(rec, u, t) THEN {}
    ELSE IF Get(rec, "trial_end_at", EMPTY_STR) = EMPTY_STR
    THEN ConfiguredRestoredJobs(e, u, rec, rec["join_time"] + rec["total_hours"], t)
    ELSE IF ~Parses(rec["trial_end_at"]) THEN {}
    ELSE ConfiguredRestoredJobs(e, u, rec, rec["trial_end_at"], t)

ConfiguredSlimRestore(e, u, rec, t) ==
    IF Get(rec, "join_time", EMPTY_STR) = EMPTY_STR \/ ~Has(rec, "total_hours") THEN {}
    ELSE IF ~Parses(rec["join_time"]) THEN {}
    ELSE ConfiguredRestoredJobs(e, u, rec, rec["join_time"] + rec["total_hours"], t)

configured_restart ==
    /\ active' = IF impl = "bot"
                 THEN [u \in {k \in DOMAIN active : validate_trial_data(active[k], k, now)}
                          |-> active[u]]
                 ELSE active
    /\ jobs' = UNION {IF impl = "bot" THEN ConfiguredBotRestore(env, u, active[u], now)
                      ELSE ConfiguredSlimRestore(env, u, active[u], now) : u \in DOMAIN active}
    /\ joining' = EmptyDict
    /\ sweep' = IdleSweep
    /\ last' = Eff("restart", 0, "restored", {}, FALSE, Cardinality(jobs'), TRUE)
    /\ UNCHANGED <<now, used>>
    /\ TrackOrig(0)
    /\ TrialUnchanged

\* An identity joined at hour 0 under some configuration of the offsets.
InitRestore ==
    /\ impl \in {"bot", "slim"}
    /\ lock = NoHolder
    /\ weekday0 \in {Monday, Saturday}
    /\ \E end3 \in EndOffsets3Day, end5 \in EndOffsets5Day : env = ConfiguredEnv(end3, end5)
    /\ limits = NoLimits
    /\ now = 0
    /\ used = EmptyDict
    /\ \E u \in Users :
          /\ active = set_active_trial(EmptyDict, u, NewTrial(0))
          /\ jobs = ConfiguredJobs(env, u, IF _is_weekend(0) THEN 5 ELSE 3, 0)
    /\ invites = EmptyDict
    /\ pending = EmptyDict
    /\ procs = [p \in Procs |-> IdleProc]
    /\ joining = EmptyDict
    /\ sweep = IdleSweep
    /\ extInvites = [u \in Users |-> 0]
    /\ orig = [trial |-> active, invite |-> EmptyDict, trials |-> 0, edits |-> 0]
    /\ last = NoEffect

NextRestore ==
    \/ \E j \in jobs : run_job(j)
    \/ configured_restart
    \/ TickDay

SpecRestore == InitRestore /\ [][NextRestore]_vars

ExpiryJobs(js, u) == {j \in js : j.user = u /\ j.fn = "trial_end"}

\* the configured expiry offset of a record's trial type, in hours
ExpiryOffset(e, rec) ==
    IF rec["total_hours"] = TRIAL_HOURS_5_DAY
    THEN Hours(e.TRIAL_END_5DAY_MINUTES)
    ELSE Hours(e.TRIAL_END_3DAY_MINUTES)

\* C40: after restart restoration exactly one trial_end job is scheduled for
\* every valid persisted ActiveTrial, never none and never two, wherever now
\* lies relative to join_time plus the configured expiry offset and to the
\* stored trial_end_at.
C40_OneExpiryJobAfterRestart ==
    [][configured_restart =>
          \A u \in DOMAIN active :
             validate_trial_data(active[u], u, now)
                => Cardinality(ExpiryJobs(jobs', u)) = 1]_vars

\* What the restoration does guarantee: exactly one trial_end job when the
\* configured offset equals the trial length.
C40_AlignedOffsetOneExpiryJob ==
    [][configured_restart =>
          \A u \in DOMAIN active :
             (validate_trial_data(active[u], u, now)
                /\ ExpiryOffset(env, active[u]) = active[u]["total_hours"])
                => Cardinality(ExpiryJobs(jobs', u)) = 1]_vars

\* A restart restored the single immediate trial_end job of an expired
\* trial under an aligned offset.
C40_AlignedExpiredWitness ==
    /\ last.op = "restart"
    /\ \E u \in DOMAIN active :
          /\ ExpiryOffset(env, active[u]) = active[u]["total_hours"]
          /\ now >= active[u]["trial_end_at"]
          /\ ExpiryJobs(jobs, u) = {[fn |-> "trial_end", user |-> u, at |-> now]}

====
